---- MODULE Spec2Model ----
(***************************************************************************)
(* Model of the invoice / purchase-order reconciliation engine            *)
(* (reconciliation.ts, dateUtils.ts).                                      *)
(*                                                                         *)
(* JavaScript strings are sequences of one-character strings.  JavaScript  *)
(* values are records [t, n, d, s]: t is the type tag ("undef", "null",    *)
(* "bool", "str", "num", "inf", "nan"), n/d the value of a finite number   *)
(* as a reduced fraction (d > 0; a boolean is n = 1 or 0; an infinity is   *)
(* n = 1 or -1), s the characters of a string.                             *)
(***************************************************************************)
EXTENDS Integers, Sequences, FiniteSets, TLC

\* ------------------------------------------------------------------------
\* Bounds of the model
\* ------------------------------------------------------------------------
MaxItems == 2
MaxPOs == 2

\* ------------------------------------------------------------------------
\* Strings
\* ------------------------------------------------------------------------
UpperLetters ==
  <<"A","B","C","D","E","F","G","H","I","J","K","L","M",
    "N","O","P","Q","R","S","T","U","V","W","X","Y","Z">>

LowerLetters ==
  <<"a","b","c","d","e","f","g","h","i","j","k","l","m",
    "n","o","p","q","r","s","t","u","v","w","x","y","z">>

Digits == <<"0","1","2","3","4","5","6","7","8","9">>

IsDigit(c) == \E i \in 1..10 : Digits[i] = c

DigitVal(c) == (CHOOSE i \in 1..10 : Digits[i] = c) - 1

IsUpper(c) == \E i \in 1..26 : UpperLetters[i] = c

IsLower(c) == \E i \in 1..26 : LowerLetters[i] = c

IsLetter(c) == IsUpper(c) \/ IsLower(c)

\* the characters matched by \s that the model's strings use
IsSpace(c) == c \in {" ", "\n", "\t"}

LowerChar(c) ==
  IF IsUpper(c) THEN LowerLetters[CHOOSE i \in 1..26 : UpperLetters[i] = c] ELSE c

UpperChar(c) ==
  IF IsLower(c) THEN UpperLetters[CHOOSE i \in 1..26 : LowerLetters[i] = c] ELSE c

toLowerCase(s) == [i \in 1..Len(s) |-> LowerChar(s[i])]

toUpperCase(s) == [i \in 1..Len(s) |-> UpperChar(s[i])]

\* String.prototype.includes
includes(s, sub) ==
  \E i \in 0..(Len(s) - Len(sub)) : SubSeq(s, i + 1, i + Len(sub)) = sub

\* String.prototype.trim
RECURSIVE trimStart(_)
trimStart(s) ==
  IF s # <<>> /\ IsSpace(Head(s)) THEN trimStart(Tail(s)) ELSE s

RECURSIVE trimEnd(_)
trimEnd(s) ==
  IF s # <<>> /\ IsSpace(s[Len(s)]) THEN trimEnd(SubSeq(s, 1, Len(s) - 1)) ELSE s

\* only the leading whitespace removed
trimLeadingOnly(s) == trimStart(s)

trim(s) == trimEnd(trimStart(s))

\* s.split(/\s+/).filter(k => k.length > 0): the maximal runs of
\* non-whitespace characters, in order
RECURSIVE splitWords(_, _, _)
splitWords(s, cur, acc) ==
  IF s = <<>>
    THEN (IF cur = <<>> THEN acc ELSE Append(acc, cur))
    ELSE IF IsSpace(Head(s))
      THEN splitWords(Tail(s), <<>>, IF cur = <<>> THEN acc ELSE Append(acc, cur))
      ELSE splitWords(Tail(s), Append(cur, Head(s)), acc)

\* s.split(sep) for a one-character separator
RECURSIVE splitOn(_, _, _, _)
splitOn(s, sep, cur, acc) ==
  IF s = <<>>
    THEN Append(acc, cur)
    ELSE IF Head(s) = sep
      THEN splitOn(Tail(s), sep, <<>>, Append(acc, cur))
      ELSE splitOn(Tail(s), sep, Append(cur, Head(s)), acc)

\* s.replace(/\n/g, ' ')
replaceNewlines(s) == [i \in 1..Len(s) |-> IF s[i] = "\n" THEN " " ELSE s[i]]

\* ------------------------------------------------------------------------
\* Numbers: finite numbers are reduced fractions n/d, NaN is its own tag
\* ------------------------------------------------------------------------
AbsInt(x) == IF x < 0 THEN -x ELSE x

RECURSIVE GCD(_, _)
GCD(a, b) == IF b = 0 THEN a ELSE GCD(b, a % b)

JSUndefined == [t |-> "undef", n |-> 0, d |-> 1, s |-> <<>>]

JSNull == [t |-> "null", n |-> 0, d |-> 1, s |-> <<>>]

NaN == [t |-> "nan", n |-> 0, d |-> 1, s |-> <<>>]

Str(chars) == [t |-> "str", n |-> 0, d |-> 1, s |-> chars]

\* the number n/d, reduced
Frac(n, d) ==
  LET g == GCD(AbsInt(n), d)
  IN  [t |-> "num", n |-> n \div g, d |-> d \div g, s |-> <<>>]

Num(n) == Frac(n, 1)

JSBool(b) == [t |-> "bool", n |-> IF b THEN 1 ELSE 0, d |-> 1, s |-> <<>>]

\* Infinity (sign 1) and -Infinity (sign -1)
Inf(sign) == [t |-> "inf", n |-> sign, d |-> 1, s |-> <<>>]

SignOf(x) == IF x < 0 THEN -1 ELSE IF x > 0 THEN 1 ELSE 0

IsNumber(v) == v.t \in {"num", "inf", "nan"}

numSub(a, b) ==
  IF a.t = "nan" \/ b.t = "nan" THEN NaN
  ELSE IF a.t = "inf" THEN (IF b.t = "inf" /\ b.n = a.n THEN NaN ELSE a)
  ELSE IF b.t = "inf" THEN Inf(-b.n)
  ELSE Frac(a.n * b.d - b.n * a.d, a.d * b.d)

numMul(a, b) ==
  IF a.t = "nan" \/ b.t = "nan" THEN NaN
  ELSE IF a.t = "inf" \/ b.t = "inf"
    THEN (IF a.n = 0 \/ b.n = 0 THEN NaN ELSE Inf(SignOf(a.n) * SignOf(b.n)))
  ELSE Frac(a.n * b.n, a.d * b.d)

\* a / b for b # 0 (the only use divides by a quantity tested !== 0)
numDiv(a, b) ==
  IF a.t = "nan" \/ b.t = "nan" THEN NaN
  ELSE IF a.t = "inf" THEN (IF b.t = "inf" THEN NaN ELSE Inf(a.n * SignOf(b.n)))
  ELSE IF b.t = "inf" THEN Frac(0, 1)
  ELSE IF b.n < 0 THEN Frac(-(a.n * b.d), a.d * (-b.n))
  ELSE Frac(a.n * b.d, a.d * b.n)

\* Math.abs
numAbs(a) ==
  IF a.t = "nan" THEN NaN
  ELSE IF a.t = "inf" THEN Inf(1)
  ELSE Frac(AbsInt(a.n), a.d)

\* a < b; every comparison with NaN is false
numLt(a, b) ==
  /\ a.t \in {"num", "inf"}
  /\ b.t \in {"num", "inf"}
  /\ IF a.t = "inf" THEN a.n = -1 /\ ~(b.t = "inf" /\ b.n = -1)
     ELSE IF b.t = "inf" THEN b.n = 1
     ELSE a.n * b.d < b.n * a.d

\* isNaN of a number
isNaN(a) == a.t = "nan"

\* ------------------------------------------------------------------------
\* JavaScript conversions
\* ------------------------------------------------------------------------
Pow10(k) == CASE k = 0 -> 1 [] k = 1 -> 10 [] k = 2 -> 100 [] k = 3 -> 1000
              [] k = 4 -> 10000 [] k = 5 -> 100000 [] OTHER -> 1000000

\* the decimal digits of a natural number
RECURSIVE natDigits(_)
natDigits(k) ==
  IF k < 10 THEN <<Digits[k + 1]>> ELSE Append(natDigits(k \div 10), Digits[(k % 10) + 1])

\* the digits of k left-padded with zeros to the given width
RECURSIVE padDigits(_, _)
padDigits(ds, width) == IF Len(ds) >= width THEN ds ELSE padDigits(<<"0">> \o ds, width)

\* Number.prototype.toString of a finite decimal number or NaN
numToString(v) ==
  IF v.t = "nan" THEN <<"N","a","N">>
  ELSE IF v.t = "inf"
    THEN (IF v.n < 0 THEN <<"-">> ELSE <<>>) \o <<"I","n","f","i","n","i","t","y">>
  ELSE LET k    == CHOOSE j \in 0..6 : Pow10(j) % v.d = 0 /\ \A i \in 0..(j - 1) : Pow10(i) % v.d # 0
           m    == (AbsInt(v.n) * Pow10(k)) \div v.d
           sign == IF v.n < 0 THEN <<"-">> ELSE <<>>
           ip   == natDigits(m \div Pow10(k))
           fp   == IF k = 0 THEN <<>> ELSE <<".">> \o padDigits(natDigits(m % Pow10(k)), k)
       IN  sign \o ip \o fp

\* the value of a digit string
RECURSIVE digitsVal(_)
digitsVal(ds) ==
  IF ds = <<>> THEN 0 ELSE digitsVal(SubSeq(ds, 1, Len(ds) - 1)) * 10 + DigitVal(ds[Len(ds)])

\* the longest prefix of s made of digits
RECURSIVE digitPrefix(_)
digitPrefix(s) ==
  IF s # <<>> /\ IsDigit(Head(s)) THEN <<Head(s)>> \o digitPrefix(Tail(s)) ELSE <<>>

\* parseFloat of a string: leading whitespace is skipped and the longest
\* prefix that is a decimal literal is converted; NaN when there is none.
\* "Infinity" after the optional sign is the infinite value.  (The strings of
\* the model carry no exponent part.)
\* (neg: a leading "-"; ip, fp: the digits before and after the point;
\* fpc: fp cut to six digits.)
parseFloatStr(s) ==
  LET literal(neg, ip, fp, fpc) ==
        IF ip = <<>> /\ fp = <<>> THEN NaN
        ELSE Frac((IF neg THEN -1 ELSE 1)
                    * (digitsVal(ip) * Pow10(Len(fpc)) + digitsVal(fpc)),
                  Pow10(Len(fpc)))
      clipped(neg, ip, fp) ==
        literal(neg, ip, fp, IF Len(fp) > 6 THEN SubSeq(fp, 1, 6) ELSE fp)
      fraction(neg, ip, s3) ==
        clipped(neg, ip,
                IF s3 # <<>> /\ Head(s3) = "." THEN digitPrefix(Tail(s3)) ELSE <<>>)
      integer(neg, s2, ip) == fraction(neg, ip, SubSeq(s2, Len(ip) + 1, Len(s2)))
      unsigned(neg, s2) ==
        IF Len(s2) >= 8 /\ SubSeq(s2, 1, 8) = <<"I","n","f","i","n","i","t","y">>
          THEN Inf(IF neg THEN -1 ELSE 1)
          ELSE integer(neg, s2, digitPrefix(s2))
      signed(s1) ==
        unsigned(s1 # <<>> /\ Head(s1) = "-",
                 IF s1 # <<>> /\ Head(s1) \in {"-", "+"} THEN Tail(s1) ELSE s1)
  IN  signed(trimStart(s))

\* ToBoolean
truthy(v) ==
  CASE v.t = "str" -> v.s # <<>>
    [] v.t = "num" -> v.n # 0
    [] v.t = "inf" -> TRUE
    [] v.t = "bool" -> v.n = 1
    [] OTHER -> FALSE

\* v.toString() for a value that has the method (not undefined / null)
toString(v) ==
  CASE v.t = "str" -> v.s
    [] v.t = "bool" -> (IF v.n = 1 THEN <<"t","r","u","e">> ELSE <<"f","a","l","s","e">>)
    [] OTHER -> numToString(v)

\* String(v), as in a template literal
templateString(v) ==
  CASE v.t = "undef" -> <<"u","n","d","e","f","i","n","e","d">>
    [] v.t = "null" -> <<"n","u","l","l">>
    [] OTHER -> toString(v)

\* parseFloat(v): the argument is converted to a string first
parseFloat(v) == parseFloatStr(templateString(v))

\* v?.toString() || dflt
optToStringOr(v, dflt) ==
  IF v.t \in {"undef", "null"} THEN dflt
  ELSE IF toString(v) = <<>> THEN dflt ELSE toString(v)

\* a === b
strictEq(a, b) == a.t # "nan" /\ a = b

\* ------------------------------------------------------------------------
\* dateUtils.ts
\* ------------------------------------------------------------------------
IsLeap(y) == (y % 4 = 0 /\ y % 100 # 0) \/ y % 400 = 0

\* days of month index mi (0..11) of year y
DaysInMonth(y, mi) ==
  CASE mi = 1 -> (IF IsLeap(y) THEN 29 ELSE 28)
    [] mi \in {3, 5, 8, 10} -> 30
    [] OTHER -> 31

\* carries a day number outside the month into the neighbouring months
RECURSIVE normDay(_, _, _)
normDay(y, mi, d) ==
  IF d < 1
    THEN LET py == IF mi = 0 THEN y - 1 ELSE y
             pm == IF mi = 0 THEN 11 ELSE mi - 1
         IN  normDay(py, pm, d + DaysInMonth(py, pm))
  ELSE IF d > DaysInMonth(y, mi)
    THEN normDay(IF mi = 11 THEN y + 1 ELSE y, IF mi = 11 THEN 0 ELSE mi + 1,
                 d - DaysInMonth(y, mi))
  ELSE [y |-> y, mi |-> mi, d |-> d]

\* floor division and the matching remainder, for a positive divisor
floorDiv(a, b) == IF a >= 0 THEN a \div b ELSE -((-a + b - 1) \div b)

floorMod(a, b) == a - b * floorDiv(a, b)

\* new Date(year, monthIndex, day): a year 0..99 means 1900 + year, and
\* month and day outside their range carry over
newDate(year, monthIndex, day) ==
  LET y0 == IF year >= 0 /\ year <= 99 THEN 1900 + year ELSE year
      y1 == y0 + floorDiv(monthIndex, 12)
      m1 == floorMod(monthIndex, 12)
  IN  normDay(y1, m1, day)

\* formatDate: month and day padded to two digits, the year as it prints
formatDate(date) ==
  padDigits(natDigits(date.mi + 1), 2) \o <<"/">> \o
  padDigits(natDigits(date.d), 2) \o <<"/">> \o natDigits(date.y)

\* a regular expression ^...$ made of \d (written "d") and literal characters
matchesShape(s, shape) ==
  /\ Len(s) = Len(shape)
  /\ \A i \in 1..Len(s) : IF shape[i] = "d" THEN IsDigit(s[i]) ELSE s[i] = shape[i]

ShapeYMD == <<"d","d","d","d","-","d","d","-","d","d">>

ShapeTimestamp == ShapeYMD \o <<" ","d","d",":","d","d",":","d","d">>

ShapeSlash4 == <<"d","d","/","d","d","/","d","d","d","d">>

ShapeSlash2 == <<"d","d","/","d","d","/","d","d">>

ShapeDash4 == <<"d","d","-","d","d","-","d","d","d","d">>

\* the patterns with the day-first readings tried before the month-first ones
dateFormatsDayFirst ==
  << [regex |-> ShapeTimestamp, format |-> "YYYY-MM-DD HH:mm:ss"],
     [regex |-> ShapeYMD,       format |-> "YYYY-MM-DD"],
     [regex |-> ShapeSlash4,    format |-> "DD/MM/YYYY"],
     [regex |-> ShapeSlash2,    format |-> "MM/DD/YY"],
     [regex |-> ShapeSlash4,    format |-> "MM/DD/YYYY"],
     [regex |-> ShapeDash4,     format |-> "DD-MM-YYYY"],
     [regex |-> ShapeDash4,     format |-> "MM-DD-YYYY"] >>

\* the ordered list of patterns tried by standardizeDate
dateFormats ==
  << [regex |-> ShapeTimestamp, format |-> "YYYY-MM-DD HH:mm:ss"],
     [regex |-> ShapeYMD,       format |-> "YYYY-MM-DD"],
     [regex |-> ShapeSlash4,    format |-> "MM/DD/YYYY"],
     [regex |-> ShapeSlash2,    format |-> "MM/DD/YY"],
     [regex |-> ShapeSlash4,    format |-> "DD/MM/YYYY"],
     [regex |-> ShapeDash4,     format |-> "MM-DD-YYYY"],
     [regex |-> ShapeDash4,     format |-> "DD-MM-YYYY"] >>

\* str.split(sep).map(Number) of a string whose parts are digit strings
splitNumbers(s, sep) ==
  LET parts == splitOn(s, sep, <<>>, <<>>)
  IN  [i \in 1..Len(parts) |-> digitsVal(parts[i])]

\* line 100: fullYear
fullYearOf(year) == IF year < 50 THEN 2000 + year ELSE 1900 + year

\* parseDate(dateStr, format), for a string that matched the format's regex
parseDate(s, format) ==
  CASE format = "YYYY-MM-DD HH:mm:ss" ->
         LET p == splitNumbers(splitOn(s, " ", <<>>, <<>>)[1], "-")
         IN  newDate(p[1], p[2] - 1, p[3])
    [] format = "YYYY-MM-DD" ->
         LET p == splitNumbers(s, "-") IN newDate(p[1], p[2] - 1, p[3])
    [] format = "MM/DD/YYYY" ->
         LET p == splitNumbers(s, "/") IN newDate(p[3], p[1] - 1, p[2])
    [] format = "MM/DD/YY" ->
         LET p == splitNumbers(s, "/") IN newDate(fullYearOf(p[3]), p[1] - 1, p[2])
    [] format = "DD/MM/YYYY" ->
         LET p == splitNumbers(s, "/") IN newDate(p[3], p[2] - 1, p[1])
    [] format = "MM-DD-YYYY" ->
         LET p == splitNumbers(s, "-") IN newDate(p[3], p[1] - 1, p[2])
    [] format = "DD-MM-YYYY" ->
         LET p == splitNumbers(s, "-") IN newDate(p[3], p[2] - 1, p[1])

\* index of the last pattern whose regex matches, 0 when none does
lastFormat(s) ==
  IF \E i \in 1..Len(dateFormats) : matchesShape(s, dateFormats[i].regex)
    THEN CHOOSE i \in 1..Len(dateFormats) :
           /\ matchesShape(s, dateFormats[i].regex)
           /\ \A j \in (i + 1)..Len(dateFormats) : ~matchesShape(s, dateFormats[j].regex)
    ELSE 0

\* lines 30-37: parseDate returns a Date for each of the seven formats, so
\* the loop returns at the first pattern whose regex matches
\* index of the first pattern whose regex matches, 0 when none does
firstFormat(s) ==
  IF \E i \in 1..Len(dateFormats) : matchesShape(s, dateFormats[i].regex)
    THEN CHOOSE i \in 1..Len(dateFormats) :
           /\ matchesShape(s, dateFormats[i].regex)
           /\ \A j \in 1..(i - 1) : ~matchesShape(s, dateFormats[j].regex)
    ELSE 0

months ==
  << <<"j","a","n","u","a","r","y">>, <<"f","e","b","r","u","a","r","y">>,
     <<"m","a","r","c","h">>, <<"a","p","r","i","l">>, <<"m","a","y">>,
     <<"j","u","n","e">>, <<"j","u","l","y">>, <<"a","u","g","u","s","t">>,
     <<"s","e","p","t","e","m","b","e","r">>, <<"o","c","t","o","b","e","r">>,
     <<"n","o","v","e","m","b","e","r">>, <<"d","e","c","e","m","b","e","r">> >>

\* getMonthIndex: full names first, then three-letter names; -1 when unknown
getMonthIndex(monthName) ==
  LET nm == toLowerCase(monthName)
  IN  IF \E i \in 1..12 : months[i] = nm
        THEN (CHOOSE i \in 1..12 : months[i] = nm) - 1
      ELSE IF \E i \in 1..12 : SubSeq(months[i], 1, 3) = nm
        THEN (CHOOSE i \in 1..12 : SubSeq(months[i], 1, 3) = nm) - 1
      ELSE -1

\* the longest prefix of s made of letters
RECURSIVE letterPrefix(_)
letterPrefix(s) ==
  IF s # <<>> /\ IsLetter(Head(s)) THEN <<Head(s)>> \o letterPrefix(Tail(s)) ELSE <<>>

\* /^([A-Za-z]+)\s+(\d{1,2}),\s+(\d{4})$/ : the captured groups, ok = FALSE
\* when the string does not match
\* (name: the letters; r1: what follows them; r2: r1 without its leading
\* blanks; dd: the day digits; r3: what follows them; r4: the year part.)
monthNameMatch(s) ==
  LET groups(name, dd, r4, ok) ==
        [ok |-> ok, name |-> name, day |-> digitsVal(dd),
         year |-> IF ok THEN digitsVal(r4) ELSE 0]
      year(name, r1, r2, dd, r3, r4) ==
        groups(name, dd, r4,
               /\ name # <<>>
               /\ r2 # r1
               /\ Len(dd) \in {1, 2}
               /\ r3 # <<>> /\ Head(r3) = ","
               /\ r4 # Tail(r3)
               /\ matchesShape(r4, <<"d","d","d","d">>))
      comma(name, r1, r2, dd, r3) ==
        year(name, r1, r2, dd, r3, IF r3 # <<>> THEN trimStart(Tail(r3)) ELSE <<>>)
      day(name, r1, r2, dd) == comma(name, r1, r2, dd, SubSeq(r2, Len(dd) + 1, Len(r2)))
      blanks(name, r1, r2) == day(name, r1, r2, digitPrefix(r2))
      rest(name, r1) == blanks(name, r1, trimStart(r1))
      named(name) == rest(name, SubSeq(s, Len(name) + 1, Len(s)))
  IN  named(letterPrefix(s))

\* new Date(string) on a string that matched none of the fixed patterns:
\* the engine's free-form parser.  It accepts "<month name> D, YYYY" and
\* rejects a string without any digit.
dateFromString(s) ==
  LET built(m, mi) ==
        IF m.ok /\ mi # -1 /\ m.day >= 1 /\ m.day <= DaysInMonth(m.year, mi)
          THEN [valid |-> TRUE, date |-> newDate(m.year, mi, m.day)]
          ELSE [valid |-> FALSE, date |-> newDate(1970, 0, 1)]
      matched(m) == built(m, getMonthIndex(m.name))
  IN  matched(monthNameMatch(s))

\* the outcome of new Date(string) when the string is not a date
NotADate == [valid |-> FALSE, date |-> newDate(1970, 0, 1)]

\* lines 30-69 of standardizeDate: the fixed patterns in order, then the
\* engine's new Date(trimmedDateStr) (parsedDate, line 40), then the month
\* names, then the trimmed string itself
standardizeTrimmed(trimmedDateStr, parsedDate) ==
  LET monthNamed(m) ==
        IF m.ok /\ getMonthIndex(m.name) # -1
          THEN formatDate(newDate(m.year, getMonthIndex(m.name), m.day))
        ELSE trimmedDateStr
      patterned(f) ==
        IF f # 0 THEN formatDate(parseDate(trimmedDateStr, dateFormats[f].format))
        ELSE IF parsedDate.valid THEN formatDate(parsedDate.date)
        ELSE monthNamed(monthNameMatch(trimmedDateStr))
  IN  patterned(firstFormat(trimmedDateStr))

\* standardizeDate that tests only for a falsy argument
standardizeDateKeepingNULL(dateStr, parsedDate) ==
  IF ~truthy(dateStr) THEN <<>>
  ELSE standardizeTrimmed(trim(toString(dateStr)), parsedDate)

\* standardizeDate(dateStr) for a string, null or undefined argument, where
\* parsedDate is what the engine's new Date(trimmedDateStr) gives
standardizeDateWith(dateStr, parsedDate) ==
  IF ~truthy(dateStr) \/ dateStr = Str(<<"N","U","L","L">>) THEN <<>>
  ELSE standardizeTrimmed(trim(toString(dateStr)), parsedDate)

\* standardizeDate(dateStr) on the engine sketched by dateFromString (which
\* is consulted for a truthy argument only)
standardizeDate(dateStr) ==
  standardizeDateWith(dateStr,
                      IF truthy(dateStr) THEN dateFromString(trim(toString(dateStr)))
                      ELSE NotADate)

\* datesEqual(date1, date2) on strings
datesEqual(date1, date2) ==
  IF date1 = <<>> \/ date2 = <<>> THEN date1 = <<>> /\ date2 = <<>>
  ELSE date1 = date2

\* ------------------------------------------------------------------------
\* reconciliation.ts: reconcileInvoiceData
\* ------------------------------------------------------------------------
SourceInvoice == "INVOICE"

SourcePO == "PO"

\* the defaults of reconcileInvoiceData, overridden by the keys that the
\* caller's options carry (JSUndefined stands for a key that is not there)
mergeOptions(options) ==
  [ quantityTolerance |-> IF options.quantityTolerance = JSUndefined
                            THEN Frac(1, 100) ELSE options.quantityTolerance,
    priceTolerance    |-> IF options.priceTolerance = JSUndefined
                            THEN Frac(1, 100) ELSE options.priceTolerance,
    minKeywordMatches |-> IF options.minKeywordMatches = JSUndefined
                            THEN Num(3) ELSE options.minKeywordMatches,
    requireDateMatch  |-> IF options.requireDateMatch = JSUndefined
                            THEN JSBool(FALSE) ELSE options.requireDateMatch ]

\* x || ""
orEmpty(v) == IF truthy(v) THEN v ELSE Str(<<>>)

\* poRecords.filter(po => po.PurchaseOrderID === poNumber)
\* the filter of line 44 comparing the PO numbers without regard to case
matchingPOsIgnoringCase(inv, recs) ==
  SelectSeq(recs, LAMBDA po :
    po.PurchaseOrderID.t = "str" /\ orEmpty(inv.poNumber).t = "str"
    /\ toLowerCase(po.PurchaseOrderID.s) = toLowerCase(orEmpty(inv.poNumber).s))

matchingPOsOf(inv, recs) ==
  SelectSeq(recs, LAMBDA po : strictEq(po.PurchaseOrderID, orEmpty(inv.poNumber)))

invoiceQtyOf(item) == parseFloatStr(optToStringOr(item.quantity, <<"0">>))

invoicePriceOf(item) ==
  IF truthy(item.unitPrice) /\ ~strictEq(item.unitPrice, Num(0))
    THEN parseFloatStr(toString(item.unitPrice))
  ELSE IF /\ truthy(item.totalPrice) /\ ~strictEq(item.totalPrice, Num(0))
          /\ ~strictEq(invoiceQtyOf(item), Num(0))
    THEN numDiv(parseFloatStr(toString(item.totalPrice)), invoiceQtyOf(item))
  ELSE parseFloatStr(optToStringOr(item.price, <<"0">>))

\* first stage: the item code contains the product name
itemCodeMatches(M, itemName) ==
  SelectSeq(M, LAMBDA po :
    /\ truthy(po.PurchaseSupplierItem)
    /\ includes(toLowerCase(po.PurchaseSupplierItem.s), toLowerCase(itemName.s)))

\* second stage: the description contains the product name
descriptionMatches(M, itemName) ==
  SelectSeq(M, LAMBDA po :
    /\ truthy(po.PurchaseSupplierDescription)
    /\ includes(toLowerCase(po.PurchaseSupplierDescription.s), toLowerCase(itemName.s)))

itemKeywordsOf(itemName) == splitWords(toUpperCase(itemName.s), <<>>, <<>>)

\* number of the keywords found in the record's description or item code
keywordMatchesOf(poRow, itemKeywords) ==
  LET poDesc == toUpperCase(orEmpty(poRow.PurchaseSupplierDescription).s)
      poItem == toUpperCase(orEmpty(poRow.PurchaseSupplierItem).s)
  IN  Cardinality({k \in 1..Len(itemKeywords) :
        includes(poDesc, itemKeywords[k]) \/ includes(poItem, itemKeywords[k])})

MinNat(a, b) == IF a < b THEN a ELSE b

\* the threshold without the halved token count
minMatchesUnhalved(opts, itemKeywords) == opts.minKeywordMatches.n

\* Math.min(opts.minKeywordMatches, Math.floor(itemKeywords.length / 2))
minMatchesOf(opts, itemKeywords) ==
  MinNat(opts.minKeywordMatches.n, Len(itemKeywords) \div 2)

\* third stage: keyword overlap
keywordCandidates(M, itemName, opts) ==
  SelectSeq(M, LAMBDA poRow :
    keywordMatchesOf(poRow, itemKeywordsOf(itemName))
      >= minMatchesOf(opts, itemKeywordsOf(itemName)))

\* poCandidatesOf with the two substring stages merged into one
poCandidatesMerged(M, itemName, opts) ==
  LET merged == SelectSeq(M, LAMBDA po :
        \/ /\ truthy(po.PurchaseSupplierItem)
           /\ includes(toLowerCase(po.PurchaseSupplierItem.s), toLowerCase(itemName.s))
        \/ /\ truthy(po.PurchaseSupplierDescription)
           /\ includes(toLowerCase(po.PurchaseSupplierDescription.s), toLowerCase(itemName.s)))
  IN  IF merged # <<>> THEN merged ELSE keywordCandidates(M, itemName, opts)

\* the candidate pool of a product name: the first non-empty stage
poCandidatesOf(M, itemName, opts) ==
  IF itemCodeMatches(M, itemName) # <<>> THEN itemCodeMatches(M, itemName)
  ELSE IF descriptionMatches(M, itemName) # <<>> THEN descriptionMatches(M, itemName)
  ELSE keywordCandidates(M, itemName, opts)

\* Math.abs(parseFloat(po.PurchaseQty.toString()) - invoiceQty) < tolerance
qtyWithin(po, qty, opts) ==
  numLt(numAbs(numSub(parseFloatStr(toString(po.PurchaseQty)), qty)),
        opts.quantityTolerance)

priceWithin(po, price, opts) ==
  numLt(numAbs(numSub(parseFloatStr(toString(po.PurchasePrice)), price)),
        opts.priceTolerance)

\* poMatchOf taking the first candidate whatever its quantity and price
firstCandidateOf(pool, qty, price, opts) == pool[1]

\* the record chosen from a non-empty pool
\* the selection with the price-only rule tried before the quantity-only rule
poMatchPriceFirst(pool, qty, price, opts) ==
  LET exactMatches == SelectSeq(pool, LAMBDA po :
                        qtyWithin(po, qty, opts) /\ priceWithin(po, price, opts))
      qtyMatches   == SelectSeq(pool, LAMBDA po : qtyWithin(po, qty, opts))
      priceMatches == SelectSeq(pool, LAMBDA po : priceWithin(po, price, opts))
  IN  IF exactMatches # <<>> THEN exactMatches[1]
      ELSE IF priceMatches # <<>> THEN priceMatches[1]
      ELSE IF qtyMatches # <<>> THEN qtyMatches[1]
      ELSE pool[1]

\* the selection without the rule for quantity and price both within tolerance
poMatchWithoutExact(pool, qty, price, opts) ==
  LET qtyMatches   == SelectSeq(pool, LAMBDA po : qtyWithin(po, qty, opts))
      priceMatches == SelectSeq(pool, LAMBDA po : priceWithin(po, price, opts))
  IN  IF qtyMatches # <<>> THEN qtyMatches[1]
      ELSE IF priceMatches # <<>> THEN priceMatches[1]
      ELSE pool[1]

\* lines 105-138: the record chosen from a non-empty pool
poMatchOf(pool, qty, price, opts) ==
  LET exactMatches == SelectSeq(pool, LAMBDA po :
                        qtyWithin(po, qty, opts) /\ priceWithin(po, price, opts))
      qtyMatches   == SelectSeq(pool, LAMBDA po : qtyWithin(po, qty, opts))
      priceMatches == SelectSeq(pool, LAMBDA po : priceWithin(po, price, opts))
  IN  IF exactMatches # <<>> THEN exactMatches[1]
      ELSE IF qtyMatches # <<>> THEN qtyMatches[1]
      ELSE IF priceMatches # <<>> THEN priceMatches[1]
      ELSE pool[1]

\* a value that has no methods: calling one on it raises a TypeError
noMethods(v) == v.t \in {"undef", "null"}

\* calling a String method on the value raises a TypeError
notString(v) == v.t # "str"

\* does the loop body raise for this line item
itemThrows(M, item, opts) ==
  LET itemName == orEmpty(item.productName)
      qty      == invoiceQtyOf(item)
      price    == invoicePriceOf(item)
      stage1T  == \E i \in 1..Len(M) :
                    truthy(M[i].PurchaseSupplierItem) /\
                    (notString(M[i].PurchaseSupplierItem) \/ notString(itemName))
      stage2T  == \E i \in 1..Len(M) :
                    truthy(M[i].PurchaseSupplierDescription) /\
                    (notString(M[i].PurchaseSupplierDescription) \/ notString(itemName))
      stage3T  == \/ notString(itemName)
                  \/ \E i \in 1..Len(M) :
                       \/ notString(orEmpty(M[i].PurchaseSupplierDescription))
                       \/ notString(orEmpty(M[i].PurchaseSupplierItem))
      pool     == poCandidatesOf(M, itemName, opts)
      exactT   == \E i \in 1..Len(pool) :
                    \/ noMethods(pool[i].PurchaseQty)
                    \/ qtyWithin(pool[i], qty, opts) /\ noMethods(pool[i].PurchasePrice)
      exactE   == ~\E i \in 1..Len(pool) :
                    qtyWithin(pool[i], qty, opts) /\ priceWithin(pool[i], price, opts)
      qtyE     == ~\E i \in 1..Len(pool) : qtyWithin(pool[i], qty, opts)
      priceT   == \E i \in 1..Len(pool) : noMethods(pool[i].PurchasePrice)
      m        == poMatchOf(pool, qty, price, opts)
  IN  \/ stage1T
      \/ itemCodeMatches(M, itemName) = <<>> /\ stage2T
      \/ /\ itemCodeMatches(M, itemName) = <<>>
         /\ descriptionMatches(M, itemName) = <<>>
         /\ stage3T
      \/ /\ pool # <<>>
         /\ \/ exactT
            \/ exactE /\ qtyE /\ priceT
            \/ noMethods(m.PurchaseQty) \/ noMethods(m.PurchasePrice)
            \/ notString(m.PurchaseSupplierDescription)

\* statusOf with the date comparison left out of the classification
statusIgnoringDate(qtyMatch, priceMatch, dateMatch) ==
  IF qtyMatch /\ priceMatch THEN "MATCH" ELSE "DISCREPANCY"

\* the Status of a matched pair (lines 163 and 178)
statusOf(qtyMatch, priceMatch, dateMatch) ==
  IF qtyMatch /\ priceMatch /\ dateMatch THEN "MATCH" ELSE "DISCREPANCY"

\* the comparison date with the invoice's date preferred to the line item's
invoiceDateStdInvoiceFirst(inv, item) ==
  standardizeDate(orEmpty(IF truthy(inv.invoiceDate) THEN inv.invoiceDate
                          ELSE item.deliveryDate))

\* the comparison date of a line item, standardized (lines 149-150, 187, 195)
invoiceDateStdOf(inv, item) ==
  standardizeDate(orEmpty(IF truthy(item.deliveryDate) THEN item.deliveryDate
                          ELSE inv.invoiceDate))

\* the invoice row of a matched line item (lines 155-167)
invoiceResultOf(inv, item, status, qtyMatch, priceMatch, dateMatch) ==
  [ Source |-> SourceInvoice, PONumber |-> orEmpty(inv.poNumber),
    ItemDescription |-> orEmpty(item.productName).s,
    Qty |-> invoiceQtyOf(item), UnitPrice |-> invoicePriceOf(item),
    TotalPrice |-> numMul(invoiceQtyOf(item), invoicePriceOf(item)),
    Date |-> invoiceDateStdOf(inv, item), Status |-> status,
    _qty_match |-> JSBool(qtyMatch),
    _price_match |-> JSBool(priceMatch),
    _date_match |-> JSBool(dateMatch) ]

\* the "Item/Description" of a PO row (line 173)
poDescriptionOf(po) ==
  templateString(po.PurchaseSupplierItem) \o <<" ","-"," ">> \o
  replaceNewlines(po.PurchaseSupplierDescription.s)

\* the PO row of a matched line item (lines 170-182)
poResultOf(poMatch, status, qtyMatch, priceMatch, dateMatch) ==
  [ Source |-> SourcePO, PONumber |-> poMatch.PurchaseOrderID,
    ItemDescription |-> poDescriptionOf(poMatch),
    Qty |-> parseFloatStr(toString(poMatch.PurchaseQty)),
    UnitPrice |-> parseFloatStr(toString(poMatch.PurchasePrice)),
    TotalPrice |-> numMul(parseFloatStr(toString(poMatch.PurchaseQty)),
                          parseFloatStr(toString(poMatch.PurchasePrice))),
    Date |-> standardizeDate(poMatch.DateRequired), Status |-> status,
    _qty_match |-> JSBool(qtyMatch),
    _price_match |-> JSBool(priceMatch),
    _date_match |-> JSBool(dateMatch) ]

\* noMatchResultOf carrying flag fields set to false
noMatchResultWithFlags(inv, item) ==
  [ Source |-> SourceInvoice, PONumber |-> orEmpty(inv.poNumber),
    ItemDescription |-> orEmpty(item.productName).s,
    Qty |-> invoiceQtyOf(item), UnitPrice |-> invoicePriceOf(item),
    TotalPrice |-> numMul(invoiceQtyOf(item), invoicePriceOf(item)),
    Date |-> invoiceDateStdOf(inv, item), Status |-> "NO MATCH",
    _qty_match |-> JSBool(FALSE),
    _price_match |-> JSBool(FALSE),
    _date_match |-> JSBool(FALSE) ]

\* the only row of an unmatched line item (lines 186-200): no flag fields
noMatchResultOf(inv, item) ==
  [ Source |-> SourceInvoice, PONumber |-> orEmpty(inv.poNumber),
    ItemDescription |-> orEmpty(item.productName).s,
    Qty |-> invoiceQtyOf(item), UnitPrice |-> invoicePriceOf(item),
    TotalPrice |-> numMul(invoiceQtyOf(item), invoicePriceOf(item)),
    Date |-> invoiceDateStdOf(inv, item), Status |-> "NO MATCH",
    _qty_match |-> JSUndefined,
    _price_match |-> JSUndefined,
    _date_match |-> JSUndefined ]

\* pushPair with the two rows pushed in the other order
pushPairPOFirst(invoiceResult, poResult) == <<poResult, invoiceResult>>

\* reconciliationResults.push(invoiceResult, poResult) (line 184)
pushPair(invoiceResult, poResult) == <<invoiceResult, poResult>>

\* the rows pushed for one line item whose candidate pool is pool
pairRows(inv, item, poMatch, status, qtyMatch, priceMatch, dateMatch) ==
  pushPair(invoiceResultOf(inv, item, status, qtyMatch, priceMatch, dateMatch),
           poResultOf(poMatch, status, qtyMatch, priceMatch, dateMatch))

flaggedRows(inv, item, poMatch, qtyMatch, priceMatch, dateMatch) ==
  pairRows(inv, item, poMatch, statusOf(qtyMatch, priceMatch, dateMatch),
           qtyMatch, priceMatch, dateMatch)

\* comparedRows with a difference equal to the tolerance counted as a match
comparedRowsInclusive(inv, item, opts, poMatch, invoiceQty, invoicePrice) ==
  flaggedRows(inv, item, poMatch,
              ~numLt(opts.quantityTolerance,
                     numAbs(numSub(invoiceQty,
                                   parseFloatStr(toString(poMatch.PurchaseQty))))),
              ~numLt(opts.priceTolerance,
                     numAbs(numSub(invoicePrice,
                                   parseFloatStr(toString(poMatch.PurchasePrice))))),
              IF truthy(opts.requireDateMatch)
                THEN datesEqual(invoiceDateStdOf(inv, item),
                                standardizeDate(poMatch.DateRequired))
                ELSE TRUE)

\* lines 141-152: the flags of the pair of the selected record
comparedRows(inv, item, opts, poMatch, invoiceQty, invoicePrice) ==
  flaggedRows(inv, item, poMatch,
              numLt(numAbs(numSub(invoiceQty,
                                  parseFloatStr(toString(poMatch.PurchaseQty)))),
                    opts.quantityTolerance),
              numLt(numAbs(numSub(invoicePrice,
                                  parseFloatStr(toString(poMatch.PurchasePrice)))),
                    opts.priceTolerance),
              IF truthy(opts.requireDateMatch)
                THEN datesEqual(invoiceDateStdOf(inv, item),
                                standardizeDate(poMatch.DateRequired))
                ELSE TRUE)

matchedRows(inv, pool, item, opts, invoiceQty, invoicePrice) ==
  comparedRows(inv, item, opts, poMatchOf(pool, invoiceQty, invoicePrice, opts),
               invoiceQty, invoicePrice)

\* itemRows pushing nothing for a line item without candidates
itemRowsMatchedOnly(inv, pool, item, opts) ==
  IF pool # <<>>
    THEN matchedRows(inv, pool, item, opts, invoiceQtyOf(item), invoicePriceOf(item))
    ELSE <<>>

\* lines 105-201: the rows pushed for one line item with candidate pool pool
itemRows(inv, pool, item, opts) ==
  IF pool # <<>>
    THEN matchedRows(inv, pool, item, opts, invoiceQtyOf(item), invoicePriceOf(item))
    ELSE <<noMatchResultOf(inv, item)>>

\* the summary without the filter on the INVOICE source
summaryOfAllRows(results) ==
  [ totalItems    |-> Len(results),
    matches       |-> Len(SelectSeq(results, LAMBDA r : r.Status = "MATCH")),
    discrepancies |-> Len(SelectSeq(results, LAMBDA r : r.Status = "DISCREPANCY")),
    noMatches     |-> Len(SelectSeq(results, LAMBDA r : r.Status = "NO MATCH")) ]

\* generateReconciliationSummary (lines 210-224)
generateReconciliationSummary(results) ==
  LET invoiceRows == SelectSeq(results, LAMBDA r : r.Source = SourceInvoice)
  IN  [ totalItems    |-> Len(invoiceRows),
        matches       |-> Len(SelectSeq(invoiceRows, LAMBDA r : r.Status = "MATCH")),
        discrepancies |-> Len(SelectSeq(invoiceRows, LAMBDA r : r.Status = "DISCREPANCY")),
        noMatches     |-> Len(SelectSeq(invoiceRows, LAMBDA r : r.Status = "NO MATCH")) ]

\* ------------------------------------------------------------------------
\* reconciliation.ts: validators
\* ------------------------------------------------------------------------
\* validateInvoiceData that accepts every string as the PO number
validateInvoiceDataAnyPONumber(inv) ==
  /\ inv.poNumber.t = "str"
  /\ \A i \in 1..Len(inv.lineItems) :
       LET item == inv.lineItems[i]
       IN  /\ truthy(item.productName) /\ item.productName.t = "str"
           /\ item.quantity.t \notin {"undef", "null"}
           /\ ~isNaN(parseFloat(item.quantity))

\* validateInvoiceData, for an invoice object whose lineItems is an array of
\* objects
validateInvoiceData(inv) ==
  /\ truthy(inv.poNumber) /\ inv.poNumber.t = "str"
  /\ \A i \in 1..Len(inv.lineItems) :
       LET item == inv.lineItems[i]
       IN  /\ truthy(item.productName) /\ item.productName.t = "str"
           /\ item.quantity.t \notin {"undef", "null"}
           /\ ~isNaN(parseFloat(item.quantity))

requiredFields ==
  {"PurchaseOrderID", "PurchaseQty", "PurchasePrice", "DateRequired",
   "PurchaseSupplierItem", "PurchaseSupplierDescription"}

\* validatePORecords, for an array of objects or a value that is no array
validatePORecords(po) ==
  /\ po.isArray
  /\ \A i \in 1..Len(po.list) :
       LET record == po.list[i]
       IN  /\ \A field \in requiredFields : record[field].t \notin {"undef", "null"}
           /\ ~isNaN(parseFloat(record.PurchaseQty))
           /\ ~isNaN(parseFloat(record.PurchasePrice))

\* typeof v === 'object' for a value that is not null: objects and arrays
IsObject(v) == v.kind \in {"object", "array"}

\* validateInvoiceData on any value: v.kind is the kind of the value, and a
\* field the value does not have reads as undefined; each line item is
\* [kind, value] in the same way
validateInvoiceDataAny(v) ==
  /\ IsObject(v)
  /\ v.lineItems.isArray
  /\ \A i \in 1..Len(v.lineItems.list) : IsObject(v.lineItems.list[i])
  /\ validateInvoiceData(
       [poNumber |-> v.poNumber,
        lineItems |-> [i \in 1..Len(v.lineItems.list) |-> v.lineItems.list[i].value]])

\* validatePORecords on any value: each record is [kind, value]
validatePORecordsAny(v) ==
  /\ v.isArray
  /\ \A i \in 1..Len(v.list) : IsObject(v.list[i])
  /\ validatePORecords(
       [isArray |-> TRUE, list |-> [i \in 1..Len(v.list) |-> v.list[i].value]])

\* ------------------------------------------------------------------------
\* Inputs
\* ------------------------------------------------------------------------
S_ab == <<"a","b">>

S_ab_cd == <<"a","b"," ","c","d">>

S_zz == <<"z","z">>

S_yy_zz == <<"y","y"," ","z","z">>

S_P1 == <<"P","1">>

D_iso == <<"2","0","2","5","-","0","4","-","0","7">>

D_us == <<"0","4","/","0","7","/","2","0","2","5">>

D_us2 == <<"0","4","/","0","7","/","2","5">>

D_other == <<"2","0","2","5","-","0","5","-","0","1">>

D_tbd == <<"T","B","D">>

LineItem(name, qty, unit, total, price, date) ==
  [ productName |-> name, quantity |-> qty, unitPrice |-> unit,
    totalPrice |-> total, price |-> price, deliveryDate |-> date ]

PORecord(id, qty, price, date, item, desc) ==
  [ PurchaseOrderID |-> id, PurchaseQty |-> qty, PurchasePrice |-> price,
    DateRequired |-> date, PurchaseSupplierItem |-> item,
    PurchaseSupplierDescription |-> desc ]

\* line items of the declared type LineItem
LineItemPool ==
  { LineItem(Str(S_ab), Num(10), Num(5), JSUndefined, JSUndefined, Str(D_us2)),
    LineItem(Str(S_ab_cd), Str(<<"8">>), JSUndefined, Num(40), JSUndefined, JSUndefined),
    LineItem(Str(S_zz), Num(1), JSUndefined, JSUndefined, Num(1), JSUndefined),
    LineItem(Str(S_yy_zz), Num(10), Num(5), JSUndefined, JSUndefined, Str(D_tbd)),
    LineItem(Str(<<>>), Str(<<"a","b","c">>), Str(<<"x">>), JSUndefined, JSUndefined, JSUndefined) }

\* purchase-order records of the declared type PurchaseOrderRecord
PORecordPool ==
  { PORecord(Str(S_P1), Num(10), Num(5), Str(D_iso),
             Str(<<"A","B","-","1">>), Str(<<"A","b"," ","c","d","\n","b","o","x">>)),
    PORecord(Str(S_P1), Str(<<"8">>), Str(<<"5",".","0","0">>), Str(D_us),
             Str(<<"X","X">>), Str(S_ab_cd)),
    PORecord(Str(S_P1), Num(10), Num(5), Str(<<>>), Str(<<>>), Str(<<>>)),
    PORecord(Str(<<>>), Num(10), Num(5), Str(D_iso), Str(S_ab), Str(S_zz)),
    PORecord(Str(S_P1), Num(10), Num(6), Str(D_other), Str(<<"a","b","2">>), Str(<<>>)) }

\* records whose fields are not all of the declared types
LoosePORecordPool ==
  { PORecord(Str(S_P1), Num(10), Num(5), Str(D_iso), Num(5), Str(S_ab)),
    PORecord(Str(S_P1), Num(10), Num(5), Str(D_iso), Str(S_ab), Num(0)),
    PORecord(Str(S_P1), JSNull, Num(5), Str(D_iso), Str(S_ab), Str(S_ab)),
    PORecord(Str(S_P1), Str(<<"a","b","c">>), Num(5), Str(D_iso), Str(S_ab), Str(S_ab)),
    PORecord(Str(S_P1), Str(<<"1","0">>), Str(<<"5">>), Str(<<>>), Str(<<>>), Str(<<>>)),
    PORecord(Str(S_P1), Num(10), Num(5), Str(D_iso),
             Str(<<"A","B","-","1">>), Str(<<"A","b"," ","c","d","\n","b","o","x">>)) }

LooseLineItemPool ==
  { LineItem(Str(S_ab), Num(10), Num(5), JSUndefined, JSUndefined, Str(D_us2)),
    LineItem(Str(S_yy_zz), Str(<<"1","0">>), JSBool(TRUE), JSUndefined, JSUndefined, JSUndefined),
    LineItem(Str(S_zz), Num(1), JSUndefined, Str(<<>>), JSNull, JSUndefined),
    LineItem(Str(<<>>), Num(10), Num(5), JSUndefined, JSUndefined, JSUndefined),
    LineItem(Str(S_ab), Str(<<"a","b","c">>), Str(<<"x">>), JSUndefined, JSUndefined, JSUndefined) }

NoOptions ==
  [ quantityTolerance |-> JSUndefined, priceTolerance |-> JSUndefined,
    minKeywordMatches |-> JSUndefined, requireDateMatch |-> JSUndefined ]

OptionsPool ==
  { NoOptions,
    [NoOptions EXCEPT !.quantityTolerance = Num(3), !.requireDateMatch = JSBool(TRUE)] }

\* (poNumber, invoiceDate) of the invoices
InvoiceHeads ==
  { <<Str(S_P1), JSUndefined>>, <<Str(<<>>), Str(D_iso)>> }

\* the sequences of length at most n of distinct elements of a finite set
RECURSIVE SeqsUpTo(_, _)
SeqsUpTo(S, n) ==
  IF n = 0 THEN {<<>>}
  ELSE LET shorter == SeqsUpTo(S, n - 1)
       IN  shorter \cup
           UNION {{Append(q, x) : x \in S \ {q[i] : i \in 1..Len(q)}} :
                    q \in {r \in shorter : Len(r) = n - 1}}

\* ------------------------------------------------------------------------
\* Inputs of the date comparison
\* ------------------------------------------------------------------------
SampleYears == {1000, 1900, 2000, 2024, 2025, 9999}

\* every day of the given years (mi is the month index 0..11)
CalendarDates(years) ==
  UNION {{[y |-> y, mi |-> mi, d |-> d] : d \in 1..DaysInMonth(y, mi)} :
           y \in years, mi \in 0..11}

TwoDigits(k) == padDigits(natDigits(k), 2)

FourDigits(k) == padDigits(natDigits(k), 4)

\* the three renderings of a date: YYYY-MM-DD, MM/DD/YYYY, MM-DD-YYYY
RenderYMD(y, m, d) ==
  FourDigits(y) \o <<"-">> \o TwoDigits(m) \o <<"-">> \o TwoDigits(d)

RenderSlash(y, m, d) ==
  TwoDigits(m) \o <<"/">> \o TwoDigits(d) \o <<"/">> \o FourDigits(y)

RenderDash(y, m, d) ==
  TwoDigits(m) \o <<"-">> \o TwoDigits(d) \o <<"-">> \o FourDigits(y)

Renderings(date) ==
  {RenderYMD(date.y, date.mi + 1, date.d), RenderSlash(date.y, date.mi + 1, date.d),
   RenderDash(date.y, date.mi + 1, date.d)}

\* MM/DD/YY
RenderShort(m, d, yy) ==
  TwoDigits(m) \o <<"/">> \o TwoDigits(d) \o <<"/">> \o TwoDigits(yy)

ShortMonths == {0, 1, 2, 4, 12, 13}

ShortDays == {0, 1, 7, 28, 29, 30, 31, 32}

ShortYears == {0, 24, 25, 49, 50, 75, 99}

ShortDates ==
  {RenderShort(m, d, yy) : m \in ShortMonths, d \in ShortDays, yy \in ShortYears}

D_null == <<"N","U","L","L">>

D_blank == <<" ">>

D_tbd_padded == <<" "," ","T","B","D"," ">>

D_year500 == <<"0","5","0","0","-","0","4","-","0","7">>

D_year50 == <<"0","4","/","0","7","/","0","0","5","0">>

D_timestamp == D_iso \o <<" ","0","0",":","0","0",":","0","0">>

D_april == <<"A","p","r","i","l"," ","7",","," ","2","0","2","5">>

D_apr31 == <<"A","p","r"," ","3","1",","," ","2","0","2","5">>

D_foo == <<"F","o","o"," ","7",","," ","2","0","2","5">>

\* absent dates, strings no strategy parses, years below 1000, month names
OddDates ==
  {JSNull, JSUndefined, Str(<<>>), Str(D_null), Str(D_blank), Str(D_tbd),
   Str(D_tbd_padded), Str(D_year500), Str(D_year50), Str(D_timestamp),
   Str(D_april), Str(D_apr31), Str(D_foo), Str(D_us)}

\* the pairs <<itemDate, poDateRequired>> the date comparison is run on:
\* two renderings of one day of the given years, a short date beside an empty
\* or a fixed date, two of the odd values
DatePairs(years) ==
  UNION {{<<Str(a), Str(b)>> : a \in Renderings(date), b \in Renderings(date)} :
           date \in CalendarDates(years)}
  \cup {<<Str(a), b>> : a \in ShortDates, b \in {Str(<<>>), Str(D_us)}}
  \cup (OddDates \X OddDates)

\* ------------------------------------------------------------------------
\* Inputs of the route's validation: values of any kind, as JSON.parse and
\* the purchase-order service may deliver them
\* ------------------------------------------------------------------------
S_Infinity == <<"I","n","f","i","n","i","t","y">>

S_abc == <<"a","b","c">>

NoLineItem ==
  LineItem(JSUndefined, JSUndefined, JSUndefined, JSUndefined, JSUndefined, JSUndefined)

NoPORecord ==
  PORecord(JSUndefined, JSUndefined, JSUndefined, JSUndefined, JSUndefined, JSUndefined)

\* a line item with a name and a quantity only
NamedItem(name, qty) == [NoLineItem EXCEPT !.productName = name, !.quantity = qty]

\* line items of every kind: objects with good and bad fields, null, a string
AnyItemPool ==
  { [kind |-> "object", value |-> NamedItem(Str(S_ab), Num(10))],
    [kind |-> "object", value |-> NamedItem(Str(S_ab_cd), Str(<<"8">>))],
    [kind |-> "object", value |-> NamedItem(Str(S_zz), Str(S_Infinity))],
    [kind |-> "object", value |-> NamedItem(Str(<<>>), Num(10))],
    [kind |-> "object", value |-> NamedItem(Num(5), Num(10))],
    [kind |-> "object", value |-> NamedItem(Str(S_zz), JSUndefined)],
    [kind |-> "object", value |-> NamedItem(Str(S_zz), Str(S_abc))],
    [kind |-> "null", value |-> NoLineItem],
    [kind |-> "string", value |-> NoLineItem] }

NotAnArray == [isArray |-> FALSE, list |-> <<>>]

\* a value that is no object: null, undefined, a string, a number, or an
\* array (which has none of the fields)
FieldlessInvoice(kind) ==
  [kind |-> kind, poNumber |-> JSUndefined, lineItems |-> NotAnArray]

\* the values validateInvoiceData is called on
AnyInvoices ==
  {FieldlessInvoice(k) : k \in {"null", "undefined", "string", "number", "array", "object"}}
  \cup {[kind |-> "object", poNumber |-> n, lineItems |-> NotAnArray] :
          n \in {Str(S_P1), Str(<<>>)}}
  \cup {[kind |-> "object", poNumber |-> n, lineItems |-> [isArray |-> TRUE, list |-> li]] :
          n \in {Str(S_P1), Str(<<>>), Num(7), JSUndefined},
          li \in SeqsUpTo(AnyItemPool, MaxItems)}

\* records of every kind
AnyRecordPool ==
  { [kind |-> "object",
     value |-> PORecord(Str(S_P1), Num(10), Num(5), Str(D_iso), Str(S_ab), Str(S_ab_cd))],
    [kind |-> "object",
     value |-> PORecord(Str(<<>>), Str(<<"8">>), Str(<<"5",".","0","0">>), Str(<<>>),
                        Str(<<>>), Str(<<>>))],
    [kind |-> "object",
     value |-> PORecord(Str(S_P1), Str(S_Infinity), Num(5), Str(D_iso), Str(S_ab), Str(S_ab))],
    [kind |-> "object",
     value |-> PORecord(Str(S_P1), Num(10), Str(S_abc), Str(D_iso), Str(S_ab), Str(S_ab))],
    [kind |-> "object",
     value |-> PORecord(Str(S_P1), JSNull, Num(5), Str(D_iso), Str(S_ab), Str(S_ab))],
    [kind |-> "object",
     value |-> PORecord(Str(S_P1), Num(10), Num(5), JSUndefined, Str(S_ab), Str(S_ab))],
    [kind |-> "null", value |-> NoPORecord],
    [kind |-> "string", value |-> NoPORecord] }

\* the values delivered as purchase-order data
AnyPOData ==
  {NotAnArray} \cup {[isArray |-> TRUE, list |-> l] : l \in SeqsUpTo(AnyRecordPool, MaxPOs)}

\* an invoice and a record list that pass validation
GoodInvoice ==
  [kind |-> "object", poNumber |-> Str(S_P1),
   lineItems |-> [isArray |-> TRUE,
                  list |-> <<[kind |-> "object", value |-> NamedItem(Str(S_ab), Num(10))]>>]]

GoodPOData ==
  [isArray |-> TRUE,
   list |-> <<[kind |-> "object",
               value |-> PORecord(Str(S_P1), Num(10), Num(5), Str(D_iso), Str(S_ab),
                                  Str(S_ab_cd))]>>]

\* ------------------------------------------------------------------------
\* The state machine: one call of reconcileInvoiceData, then the summary
\* ------------------------------------------------------------------------
VARIABLES invoiceData, poRecords, options, pc, idx, poCandidates,
          reconciliationResults, summary,
          itemDate, poDateRequired, parsedDate, invoiceDateStd, poDateStd,
          dateMatch, datePc,
          extracted, poData, routePc, apiKey, file, response,
          uploadedFile, isProcessing, progress, progressIntervals, run, runPc,
          fetched

\* the variables of the date comparison
dateVars == <<itemDate, poDateRequired, parsedDate, invoiceDateStd, poDateStd,
              dateMatch, datePc>>

\* the variables of the route's validation
routeVars == <<extracted, poData, routePc, apiKey, file, response>>

\* the variables of reconcileInvoiceData and the summary
reconcileVars == <<invoiceData, poRecords, options, pc, idx, poCandidates,
                   reconciliationResults, summary>>

\* the state of the dashboard component and of its processFile runs
dashVars == <<uploadedFile, isProcessing, progress, progressIntervals, run, runPc,
              fetched>>

vars == <<reconcileVars, dateVars, routeVars, dashVars>>

\* the date comparison is not running
DatesIdle ==
  /\ itemDate = JSUndefined
  /\ poDateRequired = JSUndefined
  /\ parsedDate = [invoice |-> NotADate, po |-> NotADate]
  /\ invoiceDateStd = <<>>
  /\ poDateStd = <<>>
  /\ dateMatch = FALSE
  /\ datePc = "idle"

\* no response has been returned yet
NoResponse == [success |-> FALSE, status |-> 0]

\* the route's validation is not running
RouteIdle ==
  /\ extracted = FieldlessInvoice("undefined")
  /\ poData = NotAnArray
  /\ routePc = "idle"
  /\ apiKey = TRUE
  /\ file = TRUE
  /\ response = NoResponse

\* no response of /api/reconcile has arrived
NotFetched == [ok |-> FALSE, success |-> FALSE]

\* the dashboard as mounted: no file chosen, nothing processed
DashIdle ==
  /\ uploadedFile = FALSE
  /\ isProcessing = FALSE
  /\ progress = 0
  /\ progressIntervals = {}
  /\ run = 0
  /\ runPc = "idle"
  /\ fetched = NotFetched

NoSummary == [totalItems |-> 0, matches |-> 0, discrepancies |-> 0, noMatches |-> 0]

InitWith(items, records, heads, optionSets) ==
  /\ \E h \in heads, li \in SeqsUpTo(items, MaxItems) :
       invoiceData = [poNumber |-> h[1], invoiceDate |-> h[2], lineItems |-> li]
  /\ \/ \E list \in SeqsUpTo(records, MaxPOs) :
          poRecords = [isArray |-> TRUE, list |-> list]
     \/ poRecords = [isArray |-> FALSE, list |-> <<>>]
  /\ options \in optionSets
  /\ pc = "start"
  /\ idx = 1
  /\ poCandidates = <<>>
  /\ reconciliationResults = <<>>
  /\ summary = NoSummary
  /\ DatesIdle
  /\ RouteIdle
  /\ DashIdle

Init == InitWith(LineItemPool, PORecordPool, InvoiceHeads, OptionsPool)

InitLoose ==
  InitWith(LooseLineItemPool, LoosePORecordPool,
           {<<Str(S_P1), JSUndefined>>, <<Str(<<>>), JSUndefined>>}, {NoOptions})

opts == mergeOptions(options)

matchingPOs == matchingPOsOf(invoiceData, poRecords.list)

\* Enter without the early return
EnterNoEarlyReturn ==
  /\ pc = "start"
  /\ pc' = "loop"
  /\ UNCHANGED <<invoiceData, poRecords, options, idx, poCandidates,
                 reconciliationResults, summary>>
  /\ UNCHANGED <<dateVars, routeVars, dashVars>>

\* lines 25-44: the early return on an empty or absent record list
Enter ==
  /\ pc = "start"
  /\ pc' = IF ~poRecords.isArray \/ Len(poRecords.list) = 0 THEN "returned" ELSE "loop"
  /\ UNCHANGED <<invoiceData, poRecords, options, idx, poCandidates,
                 reconciliationResults, summary>>
  /\ UNCHANGED <<dateVars, routeVars, dashVars>>

\* ProcessItem taking the selected record out of the PO list
ProcessItemConsuming ==
  /\ pc = "loop"
  /\ idx <= Len(invoiceData.lineItems)
  /\ IF itemThrows(matchingPOs, invoiceData.lineItems[idx], opts)
       THEN /\ pc' = "thrown"
            /\ UNCHANGED <<idx, poCandidates, reconciliationResults, poRecords>>
       ELSE /\ poCandidates' =
                 poCandidatesOf(matchingPOs, orEmpty(invoiceData.lineItems[idx].productName), opts)
            /\ reconciliationResults' = reconciliationResults \o
                 itemRows(invoiceData, poCandidates', invoiceData.lineItems[idx], opts)
            /\ poRecords' =
                 IF poCandidates' = <<>> THEN poRecords
                 ELSE [poRecords EXCEPT !.list = SelectSeq(poRecords.list, LAMBDA po :
                         po # poMatchOf(poCandidates', invoiceQtyOf(invoiceData.lineItems[idx]),
                                        invoicePriceOf(invoiceData.lineItems[idx]), opts))]
            /\ idx' = idx + 1
            /\ pc' = pc
  /\ UNCHANGED <<invoiceData, options, summary>>
  /\ UNCHANGED <<dateVars, routeVars, dashVars>>

\* lines 46-202: one iteration of the loop over the line items; poCandidates
\* is the loop's local variable of that name, as the iteration leaves it
ProcessItem ==
  /\ pc = "loop"
  /\ idx <= Len(invoiceData.lineItems)
  /\ IF itemThrows(matchingPOs, invoiceData.lineItems[idx], opts)
       THEN /\ pc' = "thrown"
            /\ UNCHANGED <<idx, poCandidates, reconciliationResults>>
       ELSE /\ poCandidates' =
                 poCandidatesOf(matchingPOs, orEmpty(invoiceData.lineItems[idx].productName), opts)
            /\ reconciliationResults' = reconciliationResults \o
                 itemRows(invoiceData, poCandidates', invoiceData.lineItems[idx], opts)
            /\ idx' = idx + 1
            /\ pc' = pc
  /\ UNCHANGED <<invoiceData, poRecords, options, summary>>
  /\ UNCHANGED <<dateVars, routeVars, dashVars>>

\* line 204
Return ==
  /\ pc = "loop"
  /\ idx > Len(invoiceData.lineItems)
  /\ pc' = "returned"
  /\ UNCHANGED <<invoiceData, poRecords, options, idx, poCandidates,
                 reconciliationResults, summary>>
  /\ UNCHANGED <<dateVars, routeVars, dashVars>>

\* generateReconciliationSummary applied to the returned list
Summarize ==
  /\ pc = "returned"
  /\ summary' = generateReconciliationSummary(reconciliationResults)
  /\ pc' = "summarized"
  /\ UNCHANGED <<invoiceData, poRecords, options, idx, poCandidates,
                 reconciliationResults>>
  /\ UNCHANGED <<dateVars, routeVars, dashVars>>

Next == Enter \/ ProcessItem \/ Return \/ Summarize

Spec == Init /\ [][Next]_vars

SpecLoose == InitLoose /\ [][Next]_vars

\* PO numbers that differ in letter case, by a trailing blank, or are empty
S_p1 == <<"p","1">>

S_P1_blank == <<"P","1"," ">>

PONumberRecordPool ==
  { PORecord(Str(id), Num(10), Num(5), Str(D_iso), Str(S_ab), Str(S_ab_cd)) :
      id \in {S_P1, S_p1, S_P1_blank, <<>>} }

PONumberItemPool ==
  { LineItem(Str(S_ab), Num(10), Num(5), JSUndefined, JSUndefined, JSUndefined),
    LineItem(Str(S_zz), Num(1), Num(1), JSUndefined, JSUndefined, JSUndefined) }

PONumberHeads ==
  { <<Str(S_P1), JSUndefined>>, <<Str(S_p1), JSUndefined>>, <<Str(<<>>), JSUndefined>>,
    <<JSUndefined, JSUndefined>> }

InitPONumbers == InitWith(PONumberItemPool, PONumberRecordPool, PONumberHeads, {NoOptions})

\* reconcileInvoiceData on invoices and records whose PO numbers are close
SpecPONumbers == InitPONumbers /\ [][Next]_vars

\* records with one item code and every combination of a quantity and a
\* price equal to or away from the invoice's 10 at 5
TieBreakRecordPool ==
  { PORecord(Str(S_P1), qty, price, Str(D_iso), Str(S_ab), Str(S_ab_cd)) :
      qty \in {Num(10), Num(9)}, price \in {Num(5), Str(<<"6",".","5">>)} }

TieBreakItemPool ==
  { LineItem(Str(S_ab), Num(10), Num(5), JSUndefined, JSUndefined, JSUndefined),
    LineItem(Str(S_ab), Str(<<"9">>), JSUndefined, Num(45), JSUndefined, JSUndefined) }

InitTieBreak ==
  InitWith(TieBreakItemPool, TieBreakRecordPool, {<<Str(S_P1), JSUndefined>>}, OptionsPool)

\* reconcileInvoiceData on candidate pools that differ in quantity and price
SpecTieBreak == InitTieBreak /\ [][Next]_vars

\* product names of one, two and four words, and records that contain some
\* of the words but never a whole name of several words
S_aa_bb_cc_dd == <<"a","a"," ","b","b"," "," ","c","c"," ","d","d">>

KeywordRecordPool ==
  { PORecord(Str(S_P1), Num(10), Num(5), Str(D_iso),
             Str(<<"A","A","-","1">>), Str(<<"b","b"," ","b","o","x">>)),
    PORecord(Str(S_P1), Num(10), Num(5), Str(D_iso),
             Str(<<"x">>), Str(<<"z","z"," ","a","a">>)),
    PORecord(Str(S_P1), Num(10), Num(5), Str(D_iso), Str(<<>>), Str(<<>>)),
    PORecord(Str(S_P1), Num(10), Num(5), Str(D_iso),
             Str(<<"c","c">>), Str(<<"D","d"," ","y","y">>)) }

KeywordItemPool ==
  { LineItem(Str(S_zz), Num(10), Num(5), JSUndefined, JSUndefined, JSUndefined),
    LineItem(Str(S_yy_zz), Num(10), Num(5), JSUndefined, JSUndefined, JSUndefined),
    LineItem(Str(S_aa_bb_cc_dd), Num(10), Num(5), JSUndefined, JSUndefined, JSUndefined) }

KeywordOptionsPool ==
  { NoOptions, [NoOptions EXCEPT !.minKeywordMatches = Num(1)] }

InitKeywords ==
  InitWith(KeywordItemPool, KeywordRecordPool, {<<Str(S_P1), JSUndefined>>},
           KeywordOptionsPool)

\* reconcileInvoiceData on product names that reach the keyword stage
SpecKeywords == InitKeywords /\ [][Next]_vars

\* reconcileInvoiceData is not running
ReconcileIdle ==
  /\ invoiceData = [poNumber |-> Str(<<>>), invoiceDate |-> JSUndefined, lineItems |-> <<>>]
  /\ poRecords = [isArray |-> TRUE, list |-> <<>>]
  /\ options = NoOptions
  /\ pc = "idle"
  /\ idx = 1
  /\ poCandidates = <<>>
  /\ reconciliationResults = <<>>
  /\ summary = NoSummary

\* ------------------------------------------------------------------------
\* The date comparison of one matched line item (reconciliation.ts lines
\* 149-152, with requireDateMatch set): both dates are standardized, then
\* compared.  parsedDate is what the engine's new Date(string) makes of each
\* trimmed string; it is consulted only for a string no fixed pattern matches.
\* ------------------------------------------------------------------------
\* standardizeDate reaches new Date(string) on this argument
ReachesBuiltIn(dateStr) ==
  /\ truthy(dateStr)
  /\ dateStr # Str(D_null)
  /\ firstFormat(trim(toString(dateStr))) = 0

\* what new Date(string) may make of the argument: the engine's free-form
\* parser is implementation-defined, so it may also reject what the sketch
\* dateFromString accepts
BuiltInOutcomes(dateStr) ==
  IF ReachesBuiltIn(dateStr)
    THEN {NotADate, dateFromString(trim(toString(dateStr)))}
    ELSE {NotADate}

InitDates ==
  /\ \E pair \in DatePairs(SampleYears) : itemDate = pair[1] /\ poDateRequired = pair[2]
  /\ \E i \in BuiltInOutcomes(itemDate), p \in BuiltInOutcomes(poDateRequired) :
       parsedDate = [invoice |-> i, po |-> p]
  /\ invoiceDateStd = <<>>
  /\ poDateStd = <<>>
  /\ dateMatch = FALSE
  /\ datePc = "invoice"
  /\ ReconcileIdle
  /\ RouteIdle
  /\ DashIdle

\* line 150
StandardizeInvoiceDate ==
  /\ datePc = "invoice"
  /\ invoiceDateStd' = standardizeDateWith(itemDate, parsedDate.invoice)
  /\ datePc' = "po"
  /\ UNCHANGED <<itemDate, poDateRequired, parsedDate, poDateStd, dateMatch>>
  /\ UNCHANGED <<reconcileVars, routeVars, dashVars>>

\* line 151
StandardizePODate ==
  /\ datePc = "po"
  /\ poDateStd' = standardizeDateWith(poDateRequired, parsedDate.po)
  /\ datePc' = "compare"
  /\ UNCHANGED <<itemDate, poDateRequired, parsedDate, invoiceDateStd, dateMatch>>
  /\ UNCHANGED <<reconcileVars, routeVars, dashVars>>

\* line 152
CompareDates ==
  /\ datePc = "compare"
  /\ dateMatch' = datesEqual(invoiceDateStd, poDateStd)
  /\ datePc' = "done"
  /\ UNCHANGED <<itemDate, poDateRequired, parsedDate, invoiceDateStd, poDateStd>>
  /\ UNCHANGED <<reconcileVars, routeVars, dashVars>>

NextDates == StandardizeInvoiceDate \/ StandardizePODate \/ CompareDates

SpecDates == InitDates /\ [][NextDates]_vars

\* ------------------------------------------------------------------------
\* The validation steps of the route (POST): the extracted invoice, then the
\* purchase-order data
\* ------------------------------------------------------------------------
InitRoute ==
  /\ \/ extracted \in AnyInvoices /\ poData = GoodPOData
     \/ extracted = GoodInvoice /\ poData \in AnyPOData
  /\ routePc = "invoice"
  /\ apiKey = TRUE
  /\ file = TRUE
  /\ response = NoResponse
  /\ ReconcileIdle
  /\ DatesIdle
  /\ DashIdle

\* NextResponse.json({ success: false, ... }, { status })
Failure(status) == [success |-> FALSE, status |-> status]

\* route lines 103-108
ValidateInvoice ==
  /\ routePc = "invoice"
  /\ routePc' = IF validateInvoiceDataAny(extracted) THEN "fetch" ELSE "status400"
  /\ response' = IF validateInvoiceDataAny(extracted) THEN response ELSE Failure(400)
  /\ UNCHANGED <<extracted, poData, apiKey, file>>
  /\ UNCHANGED <<reconcileVars, dateVars, dashVars>>

\* ValidatePOData testing Array.isArray only
ValidatePODataArrayOnly ==
  /\ routePc = "fetch"
  /\ routePc' = IF poData.isArray THEN "reconcile" ELSE "status500"
  /\ response' = IF poData.isArray THEN response ELSE Failure(500)
  /\ UNCHANGED <<extracted, poData, apiKey, file>>
  /\ UNCHANGED <<reconcileVars, dateVars, dashVars>>

\* route lines 112-131, for a fetch that delivers poData
ValidatePOData ==
  /\ routePc = "fetch"
  /\ routePc' = IF poData.isArray /\ validatePORecordsAny(poData)
                  THEN "reconcile" ELSE "status500"
  /\ response' = IF poData.isArray /\ validatePORecordsAny(poData)
                   THEN response ELSE Failure(500)
  /\ UNCHANGED <<extracted, poData, apiKey, file>>
  /\ UNCHANGED <<reconcileVars, dateVars, dashVars>>

NextRoute == ValidateInvoice \/ ValidatePOData

SpecRoute == InitRoute /\ [][NextRoute]_vars

\* ------------------------------------------------------------------------
\* Properties
\* ------------------------------------------------------------------------
Returned == pc \in {"returned", "summarized"}

EmptyPOList == ~poRecords.isArray \/ poRecords.list = <<>>

\* a step of the loop that processed line item idx without raising
ItemStep == pc = "loop" /\ idx' = idx + 1

\* the rows that the step pushed
NewRows ==
  SubSeq(reconciliationResults', Len(reconciliationResults) + 1,
         Len(reconciliationResults'))

InvoiceRowsOf(results) == SelectSeq(results, LAMBDA r : r.Source = SourceInvoice)

ItemNameOf(item) == orEmpty(item.productName)

\* the candidate pool is empty at each of the three stages
AllStagesEmpty(item) ==
  /\ itemCodeMatches(matchingPOs, ItemNameOf(item)) = <<>>
  /\ descriptionMatches(matchingPOs, ItemNameOf(item)) = <<>>
  /\ keywordCandidates(matchingPOs, ItemNameOf(item), opts) = <<>>

WithinBoth(po, item) ==
  /\ qtyWithin(po, invoiceQtyOf(item), opts)
  /\ priceWithin(po, invoicePriceOf(item), opts)

\* C1: with an empty or absent PO record list the call returns an empty
\* list: the loop is never entered and no row is ever emitted.
C1_EmptyPOListGivesNoRows ==
  EmptyPOList => (reconciliationResults = <<>> /\ pc \in {"start", "returned", "summarized"})

C1_Witness ==
  /\ pc = "returned" /\ EmptyPOList
  /\ Len(invoiceData.lineItems) > 0
  /\ reconciliationResults = <<>>

\* C2: the INVOICE rows are in line-item order (the i-th INVOICE row is the
\* row of the i-th line item), and every PO row directly follows an INVOICE
\* row and is the row of the record selected for that row's line item.
C2_RowsInLineItemOrder ==
  LET res     == reconciliationResults
      invRows == InvoiceRowsOf(res)
      items   == invoiceData.lineItems
  IN  /\ Len(invRows) <= Len(items)
      /\ \A i \in 1..Len(invRows) :
           /\ invRows[i].ItemDescription = ItemNameOf(items[i]).s
           /\ invRows[i].Qty = invoiceQtyOf(items[i])
           /\ invRows[i].UnitPrice = invoicePriceOf(items[i])
      /\ \A k \in 1..Len(res) :
           res[k].Source = SourcePO =>
             /\ k > 1
             /\ res[k - 1].Source = SourceInvoice
             /\ LET j    == Len(InvoiceRowsOf(SubSeq(res, 1, k - 1)))
                    pool == poCandidatesOf(matchingPOs, ItemNameOf(items[j]), opts)
                IN  /\ pool # <<>>
                    /\ res[k].ItemDescription =
                         poDescriptionOf(poMatchOf(pool, invoiceQtyOf(items[j]),
                                                   invoicePriceOf(items[j]), opts))

C2_Witness ==
  /\ pc = "returned"
  /\ Len(invoiceData.lineItems) >= 2
  /\ invoiceData.lineItems[1] # invoiceData.lineItems[2]
  /\ Len(reconciliationResults) >= 3
  /\ \E k \in 1..Len(reconciliationResults) : reconciliationResults[k].Source = SourcePO

\* C3: a line item whose candidate pool is empty at all three stages pushes
\* exactly one row, an INVOICE row with Status NO MATCH and no flag fields; a
\* line item with a candidate at some stage pushes exactly two rows, INVOICE
\* then PO, neither with Status NO MATCH.
C3_OneRowOrPair ==
  [][ItemStep =>
       LET item == invoiceData.lineItems[idx]
       IN  IF AllStagesEmpty(item)
             THEN /\ Len(NewRows) = 1
                  /\ NewRows[1].Source = SourceInvoice
                  /\ NewRows[1].Status = "NO MATCH"
                  /\ NewRows[1]._qty_match = JSUndefined
                  /\ NewRows[1]._price_match = JSUndefined
                  /\ NewRows[1]._date_match = JSUndefined
             ELSE /\ Len(NewRows) = 2
                  /\ NewRows[1].Source = SourceInvoice
                  /\ NewRows[2].Source = SourcePO
                  /\ NewRows[1].Status # "NO MATCH"
                  /\ NewRows[2].Status # "NO MATCH"]_vars

\* an unmatched item among records of the same PO, and a matched item none
\* of whose candidates has quantity or price within tolerance
C3_Witness ==
  /\ pc = "returned"
  /\ matchingPOs # <<>>
  /\ \E i \in 1..Len(invoiceData.lineItems) : AllStagesEmpty(invoiceData.lineItems[i])
  /\ \E i \in 1..Len(invoiceData.lineItems) :
       LET item == invoiceData.lineItems[i]
           pool == poCandidatesOf(matchingPOs, ItemNameOf(item), opts)
       IN  /\ pool # <<>>
           /\ \A c \in 1..Len(pool) :
                /\ ~qtyWithin(pool[c], invoiceQtyOf(item), opts)
                /\ ~priceWithin(pool[c], invoicePriceOf(item), opts)
  /\ Len(reconciliationResults) = 3

AllFlagsTrue(r) ==
  r._qty_match = JSBool(TRUE) /\ r._price_match = JSBool(TRUE) /\ r._date_match = JSBool(TRUE)

\* C4: the two rows of a matched pair carry the same Status and the same
\* three flags; the Status is MATCH when all three flags are true and
\* DISCREPANCY otherwise.
C4_PairStatusFromFlags ==
  \A k \in 1..Len(reconciliationResults) :
    reconciliationResults[k].Source = SourcePO =>
      LET po  == reconciliationResults[k]
          inv == reconciliationResults[k - 1]
      IN  /\ inv.Status = po.Status
          /\ inv._qty_match = po._qty_match
          /\ inv._price_match = po._price_match
          /\ inv._date_match = po._date_match
          /\ \A f \in {po._qty_match, po._price_match, po._date_match} : f.t = "bool"
          /\ po.Status = (IF AllFlagsTrue(po) THEN "MATCH" ELSE "DISCREPANCY")

\* a pair that is a MATCH and a pair that is a DISCREPANCY by its date only
C4_Witness ==
  /\ pc = "returned"
  /\ \E k \in 1..Len(reconciliationResults) :
       /\ reconciliationResults[k].Source = SourcePO
       /\ reconciliationResults[k].Status = "MATCH"
  /\ \E k \in 1..Len(reconciliationResults) :
       /\ reconciliationResults[k].Source = SourcePO
       /\ reconciliationResults[k].Status = "DISCREPANCY"
       /\ reconciliationResults[k]._qty_match = JSBool(TRUE)
       /\ reconciliationResults[k]._price_match = JSBool(TRUE)
       /\ reconciliationResults[k]._date_match = JSBool(FALSE)

CountRows(results, source, status) ==
  Cardinality({k \in 1..Len(results) :
                 results[k].Source = source /\ results[k].Status = status})

\* C5: the summary of a returned list has matches + discrepancies +
\* noMatches = totalItems, totalItems is the number of INVOICE rows, and each
\* count is the number of INVOICE rows of that Status (PO rows count nowhere).
C5_SummaryCountsInvoiceRows ==
  pc = "summarized" =>
    /\ summary.matches + summary.discrepancies + summary.noMatches = summary.totalItems
    /\ summary.totalItems =
         Cardinality({k \in 1..Len(reconciliationResults) :
                        reconciliationResults[k].Source = SourceInvoice})
    /\ summary.matches = CountRows(reconciliationResults, SourceInvoice, "MATCH")
    /\ summary.discrepancies = CountRows(reconciliationResults, SourceInvoice, "DISCREPANCY")
    /\ summary.noMatches = CountRows(reconciliationResults, SourceInvoice, "NO MATCH")

C5_Witness ==
  /\ pc = "summarized"
  /\ \E k \in 1..Len(reconciliationResults) : reconciliationResults[k].Source = SourcePO
  /\ summary.noMatches = 1
  /\ summary.matches + summary.discrepancies = 1
  /\ summary.totalItems = 2
\* the positions of the pool's records with quantity and price both within
\* tolerance of the line item's
WithinBothAt(pool, item) == {c \in 1..Len(pool) : WithinBoth(pool[c], item)}

\* C6: when the candidate pool of a line item holds exactly one record with
\* quantity and price both within tolerance, the PO row pushed is that
\* record's, and with requireDateMatch false both rows have Status MATCH.
C6_UniqueExactCandidateSelected ==
  [][ItemStep =>
       LET item == invoiceData.lineItems[idx]
           pool == poCandidates'
       IN  Cardinality(WithinBothAt(pool, item)) = 1 =>
             LET po == pool[CHOOSE c \in WithinBothAt(pool, item) : TRUE]
             IN  /\ Len(NewRows) = 2
                 /\ NewRows[2].Source = SourcePO
                 /\ NewRows[2].PONumber = po.PurchaseOrderID
                 /\ NewRows[2].ItemDescription = poDescriptionOf(po)
                 /\ NewRows[2].Qty = parseFloat(po.PurchaseQty)
                 /\ NewRows[2].UnitPrice = parseFloat(po.PurchasePrice)
                 /\ ~truthy(opts.requireDateMatch) =>
                      (NewRows[1].Status = "MATCH" /\ NewRows[2].Status = "MATCH")]_vars

\* the last line item had two candidates or more, the first one not within
\* both tolerances, exactly one within both, and the pair is a MATCH
C6_Witness ==
  /\ pc = "returned"
  /\ Len(invoiceData.lineItems) >= 1
  /\ ~truthy(opts.requireDateMatch)
  /\ LET item == invoiceData.lineItems[Len(invoiceData.lineItems)]
     IN  /\ Len(poCandidates) >= 2
         /\ Cardinality(WithinBothAt(poCandidates, item)) = 1
         /\ ~WithinBoth(poCandidates[1], item)
  /\ reconciliationResults # <<>>
  /\ reconciliationResults[Len(reconciliationResults)].Source = SourcePO
  /\ reconciliationResults[Len(reconciliationResults)].Status = "MATCH"

\* the same-PO records whose item code contains the product name, compared
\* without regard to case (the empty string is contained in every string)
ItemCodeContains(item) ==
  SelectSeq(matchingPOs, LAMBDA po :
    includes(toLowerCase(po.PurchaseSupplierItem.s), toLowerCase(ItemNameOf(item).s)))

DescriptionContains(item) ==
  SelectSeq(matchingPOs, LAMBDA po :
    includes(toLowerCase(po.PurchaseSupplierDescription.s), toLowerCase(ItemNameOf(item).s)))

\* the same, restricted to the records whose item code (description) is not
\* the empty string
NonEmptyItemCodeContains(item) ==
  SelectSeq(matchingPOs, LAMBDA po :
    /\ po.PurchaseSupplierItem.s # <<>>
    /\ includes(toLowerCase(po.PurchaseSupplierItem.s), toLowerCase(ItemNameOf(item).s)))

NonEmptyDescriptionContains(item) ==
  SelectSeq(matchingPOs, LAMBDA po :
    /\ po.PurchaseSupplierDescription.s # <<>>
    /\ includes(toLowerCase(po.PurchaseSupplierDescription.s), toLowerCase(ItemNameOf(item).s)))

\* the PO row pushed by the step is the row of one of the records
SelectedAmong(records) ==
  /\ Len(NewRows) = 2
  /\ \E c \in 1..Len(records) : NewRows[2].ItemDescription = poDescriptionOf(records[c])

\* C7 as claimed: whenever some same-PO record's item code contains the
\* product name, the candidate pool is exactly the set of those records and
\* the selected record is one of them; likewise a non-empty set of records
\* whose description contains the name is the pool when no item code does.
C7_StagedByContainment ==
  [][ItemStep =>
       LET item == invoiceData.lineItems[idx]
       IN  /\ ItemCodeContains(item) # <<>> =>
                (poCandidates' = ItemCodeContains(item) /\ SelectedAmong(ItemCodeContains(item)))
           /\ (ItemCodeContains(item) = <<>> /\ DescriptionContains(item) # <<>>) =>
                (poCandidates' = DescriptionContains(item)
                 /\ SelectedAmong(DescriptionContains(item)))]_vars

\* C7 amended: whenever some same-PO record has a non-empty item code that
\* contains the product name, the candidate pool is exactly the set of those
\* records and the selected record is one of them, whatever the quantities
\* and prices of the other records; when there is none and some record has a
\* non-empty description that contains the name, the pool is exactly the set
\* of those records.
C7_StagedByNonEmptyContainment ==
  [][ItemStep =>
       LET item == invoiceData.lineItems[idx]
       IN  /\ NonEmptyItemCodeContains(item) # <<>> =>
                /\ poCandidates' = NonEmptyItemCodeContains(item)
                /\ SelectedAmong(NonEmptyItemCodeContains(item))
           /\ (NonEmptyItemCodeContains(item) = <<>>
               /\ NonEmptyDescriptionContains(item) # <<>>) =>
                /\ poCandidates' = NonEmptyDescriptionContains(item)
                /\ SelectedAmong(NonEmptyDescriptionContains(item))]_vars

\* the last line item had an item-code match, and a same-PO record that
\* matches by description only, with quantity and price within tolerance,
\* stayed out of the pool
C7_Witness ==
  /\ pc = "returned"
  /\ Len(invoiceData.lineItems) >= 1
  /\ LET item == invoiceData.lineItems[Len(invoiceData.lineItems)]
     IN  /\ NonEmptyItemCodeContains(item) # <<>>
         /\ poCandidates = NonEmptyItemCodeContains(item)
         /\ \E i \in 1..Len(matchingPOs) :
              /\ WithinBoth(matchingPOs[i], item)
              /\ \A c \in 1..Len(poCandidates) : poCandidates[c] # matchingPOs[i]
              /\ \E c \in 1..Len(NonEmptyDescriptionContains(item)) :
                   NonEmptyDescriptionContains(item)[c] = matchingPOs[i]
         /\ \A c \in 1..Len(poCandidates) : ~WithinBoth(poCandidates[c], item)
  /\ reconciliationResults # <<>>
  /\ reconciliationResults[Len(reconciliationResults)].Source = SourcePO

\* the product name and its tokens occur in no same-PO record
NoOverlap(item) ==
  \A i \in 1..Len(matchingPOs) :
    LET code == toUpperCase(matchingPOs[i].PurchaseSupplierItem.s)
        desc == toUpperCase(matchingPOs[i].PurchaseSupplierDescription.s)
        name == toUpperCase(ItemNameOf(item).s)
        toks == splitWords(name, <<>>, <<>>)
    IN  /\ ~includes(code, name)
        /\ ~includes(desc, name)
        /\ \A t \in 1..Len(toks) : ~includes(code, toks[t]) /\ ~includes(desc, toks[t])

\* C8: for a non-empty record list, every line item whose product name and
\* tokens occur in no same-PO record's item code or description has an
\* INVOICE row with Status NO MATCH, and the summary counts it as a noMatch.
C8_NoOverlapIsNoMatch ==
  (Returned /\ ~EmptyPOList) =>
    LET items   == invoiceData.lineItems
        invRows == InvoiceRowsOf(reconciliationResults)
        lonely  == {i \in 1..Len(items) : NoOverlap(items[i])}
    IN  /\ Len(invRows) = Len(items)
        /\ \A i \in lonely : invRows[i].Status = "NO MATCH"
        /\ pc = "summarized" => summary.noMatches >= Cardinality(lonely)

\* C9: a call on an invoice accepted by validateInvoiceData and a record list
\* accepted by validatePORecords never raises.
C9_ValidatedInputNeverThrows ==
  (validateInvoiceData(invoiceData) /\ validatePORecords(poRecords)) => pc # "thrown"

\* C10: the Qty and Unit Price of every INVOICE row are finite numbers, 0
\* where the line item's quantity or price cannot be parsed, and the call
\* does not raise.
C10_InvoiceNumbersFinite ==
  /\ pc # "thrown"
  /\ \A k \in 1..Len(reconciliationResults) :
       reconciliationResults[k].Source = SourceInvoice =>
         /\ reconciliationResults[k].Qty.t = "num"
         /\ reconciliationResults[k].UnitPrice.t = "num"

\* ------------------------------------------------------------------------
\* Properties of the date comparison (under SpecDates)
\* ------------------------------------------------------------------------
InvoiceDateDone == datePc \in {"po", "compare", "done"}

PODateDone == datePc \in {"compare", "done"}

\* null, undefined, the empty string and the string "NULL"
AbsentDate(v) == v \in {JSNull, JSUndefined, Str(<<>>), Str(<<"N","U","L","L">>)}

\* C11: standardizeDate returns the empty string for null, undefined, the
\* empty string and "NULL", and two dates standardized to the empty string
\* compare equal.
C11_AbsentDatesEmptyAndEqual ==
  /\ (InvoiceDateDone /\ AbsentDate(itemDate)) => invoiceDateStd = <<>>
  /\ (PODateDone /\ AbsentDate(poDateRequired)) => poDateStd = <<>>
  /\ (datePc = "done" /\ invoiceDateStd = <<>> /\ poDateStd = <<>>) => dateMatch

C11_Witness ==
  /\ datePc = "done"
  /\ itemDate = JSNull
  /\ poDateRequired = Str(<<"N","U","L","L">>)
  /\ invoiceDateStd = <<>>
  /\ poDateStd = <<>>
  /\ dateMatch

\* the date a ten-character string spells: YYYY-MM-DD with a "-" in fifth
\* place, month, day, year otherwise
SpelledDate(s) ==
  IF s[5] = "-"
    THEN [y |-> digitsVal(SubSeq(s, 1, 4)), mi |-> digitsVal(SubSeq(s, 6, 7)) - 1,
          d |-> digitsVal(SubSeq(s, 9, 10))]
    ELSE [y |-> digitsVal(SubSeq(s, 7, 10)), mi |-> digitsVal(SubSeq(s, 1, 2)) - 1,
          d |-> digitsVal(SubSeq(s, 4, 5))]

\* v is YYYY-MM-DD, MM/DD/YYYY or MM-DD-YYYY of a calendar date (a month
\* 1..12 and a day of that month) with a year of four digits
RendersCalendarDate(v) ==
  /\ v.t = "str"
  /\ \/ matchesShape(v.s, ShapeYMD)
     \/ matchesShape(v.s, ShapeSlash4)
     \/ matchesShape(v.s, ShapeDash4)
  /\ SpelledDate(v.s).y \in SampleYears
  /\ SpelledDate(v.s).mi \in 0..11
  /\ SpelledDate(v.s).d >= 1
  /\ SpelledDate(v.s).d <= DaysInMonth(SpelledDate(v.s).y, SpelledDate(v.s).mi)

\* MM/DD/YYYY of a date
Canonical(date) == RenderSlash(date.y, date.mi + 1, date.d)

\* C12: the renderings YYYY-MM-DD, MM/DD/YYYY and MM-DD-YYYY of a valid
\* calendar date with a four-digit year all standardize to MM/DD/YYYY of that
\* date, and two renderings of the same date compare equal.
C12_ValidDateRenderingsAgree ==
  /\ (InvoiceDateDone /\ RendersCalendarDate(itemDate))
       => invoiceDateStd = Canonical(SpelledDate(itemDate.s))
  /\ (PODateDone /\ RendersCalendarDate(poDateRequired))
       => poDateStd = Canonical(SpelledDate(poDateRequired.s))
  /\ (/\ datePc = "done"
      /\ RendersCalendarDate(itemDate)
      /\ RendersCalendarDate(poDateRequired)
      /\ SpelledDate(itemDate.s) = SpelledDate(poDateRequired.s))
       => dateMatch

C12_Witness ==
  /\ datePc = "done"
  /\ itemDate = Str(<<"2","0","2","4","-","0","2","-","2","9">>)
  /\ poDateRequired = Str(<<"0","2","-","2","9","-","2","0","2","4">>)
  /\ invoiceDateStd = <<"0","2","/","2","9","/","2","0","2","4">>
  /\ poDateStd = invoiceDateStd
  /\ dateMatch

\* the year a two-digit year stands for
ExpandedYear(yy) == IF yy <= 49 THEN 2000 + yy ELSE 1900 + yy

\* MM/DD/ of the input followed by the expanded year
ShortExpanded(s) == SubSeq(s, 1, 6) \o natDigits(ExpandedYear(digitsVal(SubSeq(s, 7, 8))))

\* C13: every input of shape MM/DD/YY standardizes to its own month and day
\* with the year 2000+yy (yy in 0..49) or 1900+yy (yy in 50..99).
C13_ShortYearExpandedInPlace ==
  /\ (InvoiceDateDone /\ itemDate.t = "str" /\ matchesShape(itemDate.s, ShapeSlash2))
       => invoiceDateStd = ShortExpanded(itemDate.s)
  /\ (PODateDone /\ poDateRequired.t = "str" /\ matchesShape(poDateRequired.s, ShapeSlash2))
       => poDateStd = ShortExpanded(poDateRequired.s)

\* C14: every non-empty string returned by standardizeDate has the shape
\* MM/DD/YYYY: two digits, "/", two digits, "/", four digits.
C14_OutputAlwaysCanonical ==
  /\ (InvoiceDateDone /\ invoiceDateStd # <<>>) => matchesShape(invoiceDateStd, ShapeSlash4)
  /\ (PODateDone /\ poDateStd # <<>>) => matchesShape(poDateStd, ShapeSlash4)

\* the argument reaches line 69: truthy and not "NULL", matched by no fixed
\* pattern, rejected by new Date(string), matched by no month-name pattern
\* with a known month
NoStrategyParses(dateStr, builtIn) ==
  /\ dateStr.t = "str"
  /\ dateStr.s # <<>>
  /\ dateStr.s # D_null
  /\ \A i \in 1..Len(dateFormats) : ~matchesShape(trim(dateStr.s), dateFormats[i].regex)
  /\ ~builtIn.valid
  /\ ~(monthNameMatch(trim(dateStr.s)).ok
         /\ getMonthIndex(monthNameMatch(trim(dateStr.s)).name) # -1)

\* s without its leading and trailing whitespace: the part from the first to
\* the last character that is no whitespace
Stripped(s) ==
  LET inked == {i \in 1..Len(s) : ~IsSpace(s[i])}
  IN  IF inked = {} THEN <<>>
      ELSE SubSeq(s, CHOOSE i \in inked : \A j \in inked : i <= j,
                     CHOOSE i \in inked : \A j \in inked : j <= i)

\* C15: standardizeDate never raises (each call of the date comparison
\* completes with a string), and an input that no fixed pattern matches, that
\* generic parsing rejects and that no month-name pattern matches comes back
\* with its leading and trailing whitespace removed and otherwise unchanged.
C15_UnparsedReturnedTrimmed ==
  /\ (InvoiceDateDone /\ NoStrategyParses(itemDate, parsedDate.invoice))
       => invoiceDateStd = Stripped(itemDate.s)
  /\ (PODateDone /\ NoStrategyParses(poDateRequired, parsedDate.po))
       => poDateStd = Stripped(poDateRequired.s)

C15_Witness ==
  /\ datePc = "done"
  /\ itemDate = Str(D_tbd_padded)
  /\ invoiceDateStd = D_tbd
  /\ poDateRequired = Str(D_foo)
  /\ poDateStd = D_foo

\* ------------------------------------------------------------------------
\* Properties of the validators (under SpecRoute)
\* ------------------------------------------------------------------------
\* validateInvoiceData has returned true
InvoiceAccepted == routePc \in {"fetch", "reconcile", "status500"}

\* v parses (parseFloat) to a finite number
ParsesFinite(v) == parseFloat(v).t = "num"

\* a record with all six fields present and finite quantity and price
RecordWellFormed(r) ==
  /\ r.kind = "object"
  /\ \A field \in requiredFields : r.value[field] \notin {JSNull, JSUndefined}
  /\ ParsesFinite(r.value.PurchaseQty)
  /\ ParsesFinite(r.value.PurchasePrice)

\* C16: validatePORecords returns true only when every record of the list
\* has the six required fields, none null or undefined, and a PurchaseQty and
\* a PurchasePrice that parse to finite numbers.
C16_AcceptedRecordsFinite ==
  routePc = "reconcile" =>
    \A i \in 1..Len(poData.list) : RecordWellFormed(poData.list[i])

\* a string with at least one character
NonEmptyString(v) == v.t = "str" /\ v.s # <<>>

\* the value is an invoice object whose PO number is a non-empty string, whose
\* lineItems is an array and whose items are objects with a non-empty string
\* productName and a quantity that parses to a number
InvoiceWellFormed(v) ==
  /\ v.kind = "object"
  /\ NonEmptyString(v.poNumber)
  /\ v.lineItems.isArray
  /\ \A i \in 1..Len(v.lineItems.list) :
       /\ v.lineItems.list[i].kind = "object"
       /\ NonEmptyString(v.lineItems.list[i].value.productName)
       /\ ~isNaN(parseFloat(v.lineItems.list[i].value.quantity))

\* C17: validateInvoiceData returns true exactly when the PO number is a
\* non-empty string, lineItems is an array and every line item has a non-empty
\* string productName and a quantity that parses to a number; for every other
\* value (null, a non-object, an empty PO number) it returns false.
C17_InvoiceAcceptedIffWellFormed ==
  routePc # "invoice" => (InvoiceAccepted <=> InvoiceWellFormed(extracted))

C17_Witness ==
  /\ routePc = "status400"
  /\ extracted.kind = "object"
  /\ extracted.poNumber = Str(<<>>)
  /\ extracted.lineItems.isArray
  /\ Len(extracted.lineItems.list) = 1
  /\ extracted.lineItems.list[1].value = NamedItem(Str(S_ab), Num(10))

\* ------------------------------------------------------------------------
\* C18 (under SpecPONumbers)
\* ------------------------------------------------------------------------
\* the invoice's PO number as a string, absent read as empty
InvoicePONumber ==
  IF invoiceData.poNumber.t = "str" THEN invoiceData.poNumber.s ELSE <<>>

\* the same characters in the same case
SameString(v, chars) == v.t = "str" /\ v.s = chars

\* C18: every PO-source row carries a PO number equal, character for
\* character and case-sensitively, to the invoice's PO number; no record with
\* another PO number is a candidate of any line item; an invoice with an
\* empty PO number is paired only with records whose PO number is empty.
C18_OnlySamePONumberPaired ==
  /\ \A k \in 1..Len(reconciliationResults) :
       reconciliationResults[k].Source = SourcePO
         => SameString(reconciliationResults[k].PONumber, InvoicePONumber)
  /\ \A c \in 1..Len(poCandidates) :
       SameString(poCandidates[c].PurchaseOrderID, InvoicePONumber)
  /\ InvoicePONumber = <<>>
       => \A k \in 1..Len(reconciliationResults) :
            reconciliationResults[k].Source = SourcePO
              => reconciliationResults[k].PONumber = Str(<<>>)

C18_Witness ==
  /\ Returned
  /\ invoiceData.poNumber = Str(S_P1)
  /\ Len(poRecords.list) = 2
  /\ poRecords.list[1].PurchaseOrderID = Str(S_p1)
  /\ poRecords.list[2].PurchaseOrderID = Str(S_P1)
  /\ Len(reconciliationResults) >= 2
  /\ reconciliationResults[2].Source = SourcePO
  /\ reconciliationResults[2].PONumber = Str(S_P1)

\* ------------------------------------------------------------------------
\* C19 (under SpecTieBreak)
\* ------------------------------------------------------------------------
\* the least element of a non-empty set of indices
First(S) == CHOOSE c \in S : \A e \in S : c <= e

QtyWithinAt(pool, item) ==
  {c \in 1..Len(pool) : qtyWithin(pool[c], invoiceQtyOf(item), opts)}

PriceWithinAt(pool, item) ==
  {c \in 1..Len(pool) : priceWithin(pool[c], invoicePriceOf(item), opts)}

\* the index in the pool of the record the tie-break names
TieBreakChoice(pool, item) ==
  IF QtyWithinAt(pool, item) \cap PriceWithinAt(pool, item) # {}
    THEN First(QtyWithinAt(pool, item) \cap PriceWithinAt(pool, item))
  ELSE IF QtyWithinAt(pool, item) # {} THEN First(QtyWithinAt(pool, item))
  ELSE IF PriceWithinAt(pool, item) # {} THEN First(PriceWithinAt(pool, item))
  ELSE 1

\* the PO row is the row of this record
RowOfRecord(row, po) ==
  /\ row.Source = SourcePO
  /\ row.PONumber = po.PurchaseOrderID
  /\ row.ItemDescription = poDescriptionOf(po)
  /\ row.Qty = parseFloat(po.PurchaseQty)
  /\ row.UnitPrice = parseFloat(po.PurchasePrice)

\* C19: from a non-empty candidate pool the selected record is the first in
\* pool order with quantity and price both within tolerance; failing that the
\* first with the quantity within tolerance; failing that the first with the
\* price within tolerance; failing that the first of the pool.  The pool is in
\* the order of the PO array.
C19_TieBreakOrder ==
  [][ItemStep =>
       (poCandidates' # <<>> =>
          /\ Len(NewRows) = 2
          /\ RowOfRecord(NewRows[2],
               poCandidates'[TieBreakChoice(poCandidates', invoiceData.lineItems[idx])])
          /\ \E f \in [1..Len(poCandidates') -> 1..Len(poRecords.list)] :
               /\ \A c \in 1..Len(poCandidates') : poRecords.list[f[c]] = poCandidates'[c]
               /\ \A c, e \in 1..Len(poCandidates') : c < e => f[c] < f[e])]_vars

\* the last line item had a candidate with only the price within tolerance
\* ahead of one with only the quantity within tolerance, and the PO row is the
\* latter's
C19_Witness ==
  /\ pc = "returned"
  /\ Len(invoiceData.lineItems) >= 1
  /\ Len(poCandidates) = 2
  /\ LET item == invoiceData.lineItems[Len(invoiceData.lineItems)]
     IN  /\ QtyWithinAt(poCandidates, item) = {2}
         /\ PriceWithinAt(poCandidates, item) = {1}
  /\ reconciliationResults # <<>>
  /\ RowOfRecord(reconciliationResults[Len(reconciliationResults)], poCandidates[2])
  /\ ~RowOfRecord(reconciliationResults[Len(reconciliationResults)], poCandidates[1])

\* ------------------------------------------------------------------------
\* C20 (under SpecKeywords)
\* ------------------------------------------------------------------------
\* the tokens of a string as pairs <<first, last>> of positions: the maximal
\* runs of characters that are no whitespace
TokenRuns(s) ==
  {r \in (1..Len(s)) \X (1..Len(s)) :
     /\ r[1] <= r[2]
     /\ \A i \in r[1]..r[2] : ~IsSpace(s[i])
     /\ r[1] = 1 \/ IsSpace(s[r[1] - 1])
     /\ r[2] = Len(s) \/ IsSpace(s[r[2] + 1])}

\* the characters of a field, upper-cased; nothing for an absent field
UpperField(v) == IF v.t = "str" THEN toUpperCase(v.s) ELSE <<>>

\* how many tokens of the upper-cased name occur in the record's upper-cased
\* description or item code
TokenHits(po, name) ==
  Cardinality({r \in TokenRuns(name) :
    \/ includes(UpperField(po.PurchaseSupplierDescription),
                toUpperCase(SubSeq(name, r[1], r[2])))
    \/ includes(UpperField(po.PurchaseSupplierItem),
                toUpperCase(SubSeq(name, r[1], r[2])))})

\* min(minKeywordMatches, floor(tokenCount / 2))
KeywordThreshold(name) ==
  IF opts.minKeywordMatches.n < Cardinality(TokenRuns(name)) \div 2
    THEN opts.minKeywordMatches.n
    ELSE Cardinality(TokenRuns(name)) \div 2

\* the same-PO records that reach the threshold, in the order of the PO array
KeywordQualified(name) ==
  SelectSeq(matchingPOs, LAMBDA po : TokenHits(po, name) >= KeywordThreshold(name))

\* C20: when both substring stages are empty, the candidate pool is the list
\* of same-PO records, in PO-array order, for which the number of the product
\* name's whitespace-separated upper-cased tokens occurring in the upper-cased
\* description or item code is at least
\* min(minKeywordMatches, floor(tokenCount / 2)).
C20_KeywordStageThreshold ==
  [][ItemStep =>
       ((/\ NonEmptyItemCodeContains(invoiceData.lineItems[idx]) = <<>>
         /\ NonEmptyDescriptionContains(invoiceData.lineItems[idx]) = <<>>)
          => poCandidates' = KeywordQualified(ItemNameOf(invoiceData.lineItems[idx]).s))]_vars

\* the last line item has four tokens and reached the keyword stage, one
\* record with two hits was kept and one with a single hit was dropped
C20_Witness ==
  /\ pc = "returned"
  /\ Len(invoiceData.lineItems) >= 1
  /\ Len(matchingPOs) = 2
  /\ LET item == invoiceData.lineItems[Len(invoiceData.lineItems)]
     IN  /\ item.productName = Str(S_aa_bb_cc_dd)
         /\ NonEmptyItemCodeContains(item) = <<>>
         /\ NonEmptyDescriptionContains(item) = <<>>
         /\ KeywordThreshold(item.productName.s) = 2
         /\ TokenHits(matchingPOs[1], item.productName.s) = 1
         /\ TokenHits(matchingPOs[2], item.productName.s) = 2
         /\ poCandidates = <<matchingPOs[2]>>

\* ------------------------------------------------------------------------
\* C21 (under SpecPrices)
\* ------------------------------------------------------------------------
\* line items that differ in how the unit price is given: as a number, as
\* zero (the number or a string), through the total, through the legacy field
PriceItemPool ==
  { LineItem(Str(S_ab), Num(10), Num(5), JSUndefined, JSUndefined, JSUndefined),
    LineItem(Str(S_ab), Str(<<"8">>), Num(0), Num(40), Num(7), JSUndefined),
    LineItem(Str(S_ab), Num(8), Str(<<"0">>), Num(40), JSUndefined, JSUndefined),
    LineItem(Str(S_ab), Num(8), Str(<<"0",".","0","0">>), JSUndefined, Num(7), JSUndefined),
    LineItem(Str(S_ab), Num(8), JSUndefined, Num(0), Num(7), JSUndefined),
    LineItem(Str(S_ab), Num(0), JSUndefined, Num(40), Str(<<"7">>), JSUndefined),
    LineItem(Str(S_zz), Num(8), JSUndefined, JSUndefined, JSUndefined, JSUndefined),
    LineItem(Str(S_zz), Num(8), Str(<<"2",".","5">>), Num(40), Num(7), JSUndefined) }

PriceRecordPool ==
  { PORecord(Str(S_P1), Num(8), Num(5), Str(D_iso), Str(S_ab), Str(S_ab_cd)),
    PORecord(Str(S_P1), Num(10), Num(7), Str(D_iso), Str(S_ab), Str(S_zz)) }

InitPrices ==
  InitWith(PriceItemPool, PriceRecordPool, {<<Str(S_P1), JSUndefined>>}, {NoOptions})

\* reconcileInvoiceData on line items whose price comes from different fields
SpecPrices == InitPrices /\ [][Next]_vars

\* the field is there and its numeric value is not zero
PresentNonZero(v) == v.t \notin {"undef", "null"} /\ parseFloat(v) # Num(0)

\* the unit price of a line item as described: the non-zero unit price, else
\* the non-zero total over the non-zero quantity, else the legacy price, else 0
DescribedUnitPrice(item) ==
  IF PresentNonZero(item.unitPrice) THEN parseFloat(item.unitPrice)
  ELSE IF PresentNonZero(item.totalPrice) /\ invoiceQtyOf(item) # Num(0)
    THEN numDiv(parseFloat(item.totalPrice), invoiceQtyOf(item))
  ELSE IF item.price.t \notin {"undef", "null"} THEN parseFloat(item.price)
  ELSE Num(0)

\* C21: the Unit Price of the INVOICE row of every line item is the unitPrice
\* field when present and non-zero, otherwise totalPrice divided by the
\* parsed quantity when both are non-zero, otherwise the legacy price field,
\* otherwise 0; a unitPrice of zero, given as the number 0 or as a numeric
\* string denoting zero, is not used.
C21_UnitPriceAsDescribed ==
  \A i \in 1..Len(InvoiceRowsOf(reconciliationResults)) :
    InvoiceRowsOf(reconciliationResults)[i].UnitPrice
      = DescribedUnitPrice(invoiceData.lineItems[i])

\* ------------------------------------------------------------------------
\* C22 (under Spec)
\* ------------------------------------------------------------------------
NonEmptyDate(v) == v.t = "str" /\ v.s # <<>>

\* the line item's deliveryDate if non-empty, else the invoice's invoiceDate,
\* else empty
ComparisonDate(item) ==
  IF NonEmptyDate(item.deliveryDate) THEN item.deliveryDate
  ELSE IF NonEmptyDate(invoiceData.invoiceDate) THEN invoiceData.invoiceDate
  ELSE Str(<<>>)

\* two normalized dates agree: both empty, or both there and the same string
NormalizedAgree(a, b) == IF a = <<>> \/ b = <<>> THEN a = <<>> /\ b = <<>> ELSE a = b

\* the record selected for the line item of the step
SelectedRecord ==
  poMatchOf(poCandidates', invoiceQtyOf(invoiceData.lineItems[idx]),
            invoicePriceOf(invoiceData.lineItems[idx]), opts)

\* rows, records, a line item and the invoice with their dates removed
WithoutDates(rows) == [k \in 1..Len(rows) |-> [rows[k] EXCEPT !.Date = <<>>]]

UndatedRecords(recs) == [i \in 1..Len(recs) |-> [recs[i] EXCEPT !.DateRequired = Str(<<>>)]]

UndatedItem(item) == [item EXCEPT !.deliveryDate = JSUndefined]

UndatedInvoice == [invoiceData EXCEPT !.invoiceDate = JSUndefined]

\* C22: for every matched line item the _date_match flag is true when
\* requireDateMatch is false, and then the rows are, but for their Date, the
\* rows of the same input with every date removed; when requireDateMatch is
\* true the flag says whether the normalized comparison date (deliveryDate if
\* non-empty, else invoiceDate, else empty) and the normalized DateRequired
\* of the selected record agree, and a date missing on exactly one side gives
\* false.
C22_DateFlag ==
  [][(ItemStep /\ poCandidates' # <<>>) =>
       LET item   == invoiceData.lineItems[idx]
           invStd == standardizeDate(ComparisonDate(item))
           poStd  == standardizeDate(SelectedRecord.DateRequired)
       IN  /\ Len(NewRows) = 2
           /\ NewRows[1]._date_match = NewRows[2]._date_match
           /\ NewRows[1].Date = invStd
           /\ NewRows[2].Date = poStd
           /\ IF truthy(opts.requireDateMatch)
                THEN /\ NewRows[1]._date_match = JSBool(NormalizedAgree(invStd, poStd))
                     /\ ((invStd = <<>>) # (poStd = <<>>))
                          => NewRows[1]._date_match = JSBool(FALSE)
                ELSE /\ NewRows[1]._date_match = JSBool(TRUE)
                     /\ WithoutDates(NewRows) =
                          WithoutDates(itemRows(UndatedInvoice,
                            poCandidatesOf(UndatedRecords(matchingPOs), ItemNameOf(item), opts),
                            UndatedItem(item), opts))]_vars

\* with requireDateMatch set: a pair whose dates agree although written
\* differently, and a pair whose invoice side has no date while the record has
\* one; the second line item has no deliveryDate
C22_Witness ==
  /\ pc = "returned"
  /\ truthy(opts.requireDateMatch)
  /\ Len(invoiceData.lineItems) = 2
  /\ invoiceData.lineItems[1].deliveryDate = Str(D_us2)
  /\ ~NonEmptyDate(invoiceData.lineItems[2].deliveryDate)
  /\ Len(reconciliationResults) = 4
  /\ reconciliationResults[1]._date_match = JSBool(TRUE)
  /\ reconciliationResults[2].Date = <<"0","4","/","0","7","/","2","0","2","5">>
  /\ reconciliationResults[3].Date = <<>>
  /\ reconciliationResults[4].Date # <<>>
  /\ reconciliationResults[4]._date_match = JSBool(FALSE)

\* ------------------------------------------------------------------------
\* C23 (under SpecTolerance)
\* ------------------------------------------------------------------------
\* records whose quantity and price are at, within and beyond the tolerances
\* 3 and 1 of the invoice's 10 at 5
ToleranceRecordPool ==
  { PORecord(Str(S_P1), Num(10), Num(5), Str(D_iso), Str(S_ab), Str(S_ab_cd)),
    PORecord(Str(S_P1), Num(13), Num(6), Str(D_iso), Str(S_ab), Str(S_ab_cd)),
    PORecord(Str(S_P1), Str(<<"7">>), Str(<<"4",".","5">>), Str(D_iso), Str(S_ab), Str(S_ab_cd)),
    PORecord(Str(S_P1), Num(9), Num(9), Str(D_iso), Str(S_ab), Str(S_ab_cd)) }

ToleranceItemPool ==
  { LineItem(Str(S_ab), Num(10), Num(5), JSUndefined, JSUndefined, JSUndefined),
    LineItem(Str(S_ab), Str(S_abc), Num(5), JSUndefined, JSUndefined, JSUndefined) }

ToleranceOptionsPool ==
  { NoOptions, [NoOptions EXCEPT !.quantityTolerance = Num(3), !.priceTolerance = Num(1)] }

InitTolerance ==
  InitWith(ToleranceItemPool, ToleranceRecordPool, {<<Str(S_P1), JSUndefined>>},
           ToleranceOptionsPool)

\* reconcileInvoiceData on quantities and prices around the tolerances
SpecTolerance == InitTolerance /\ [][Next]_vars

\* |x - y| < tol for finite numbers; false when one of them is no number
AbsDiffBelow(x, y, tol) ==
  /\ x.t = "num" /\ y.t = "num" /\ tol.t = "num"
  /\ AbsInt(x.n * y.d - y.n * x.d) * tol.d < tol.n * x.d * y.d

\* C23: for every INVOICE/PO pair pushed, _qty_match is true exactly when
\* the absolute difference of the two rows' Qty is strictly below
\* quantityTolerance and _price_match exactly when that of the two rows' Unit
\* Price is strictly below priceTolerance; the PO row's Qty and Unit Price are
\* those of the selected record.
C23_FlagsAreRowDifferences ==
  [][(ItemStep /\ poCandidates' # <<>>) =>
       /\ Len(NewRows) = 2
       /\ NewRows[2].Qty = parseFloat(SelectedRecord.PurchaseQty)
       /\ NewRows[2].UnitPrice = parseFloat(SelectedRecord.PurchasePrice)
       /\ \A r \in 1..2 :
            /\ NewRows[r]._qty_match =
                 JSBool(AbsDiffBelow(NewRows[1].Qty, NewRows[2].Qty, opts.quantityTolerance))
            /\ NewRows[r]._price_match =
                 JSBool(AbsDiffBelow(NewRows[1].UnitPrice, NewRows[2].UnitPrice,
                                     opts.priceTolerance))]_vars

\* a pair whose quantities differ by exactly the tolerance 3 and whose prices
\* differ by exactly the tolerance 1: neither flag is set
C23_Witness ==
  /\ pc = "returned"
  /\ opts.quantityTolerance = Num(3)
  /\ opts.priceTolerance = Num(1)
  /\ Len(reconciliationResults) = 2
  /\ reconciliationResults[1].Qty = Num(10)
  /\ reconciliationResults[2].Qty = Num(13)
  /\ reconciliationResults[1].UnitPrice = Num(5)
  /\ reconciliationResults[2].UnitPrice = Num(6)
  /\ reconciliationResults[2]._qty_match = JSBool(FALSE)
  /\ reconciliationResults[2]._price_match = JSBool(FALSE)

\* ------------------------------------------------------------------------
\* C24 (under SpecFieldOrder)
\* ------------------------------------------------------------------------
\* dd/dd/dddd and dd-dd-dddd strings whose first field, second field or both
\* could be a day
FieldOrderDates ==
  {TwoDigits(a) \o <<sep>> \o TwoDigits(b) \o <<sep>> \o FourDigits(2025) :
     a \in {1, 7, 12, 13, 25, 31}, b \in {1, 7, 12, 13, 31}, sep \in {"/", "-"}}

InitFieldOrder ==
  /\ \E s \in FieldOrderDates, p \in {Str(<<>>), Str(D_us)} :
       itemDate = Str(s) /\ poDateRequired = p
  /\ parsedDate = [invoice |-> NotADate, po |-> NotADate]
  /\ invoiceDateStd = <<>>
  /\ poDateStd = <<>>
  /\ dateMatch = FALSE
  /\ datePc = "invoice"
  /\ ReconcileIdle
  /\ RouteIdle
  /\ DashIdle

\* the date comparison on strings of two, two and four digits
SpecFieldOrder == InitFieldOrder /\ [][NextDates]_vars

\* the format whose parse branch standardizeDate takes for the string
BranchTaken(s) ==
  IF firstFormat(trim(s)) = 0 THEN "none" ELSE dateFormats[firstFormat(trim(s))].format

\* the string read as month, day, year and formatted
MonthFirstReading(s) ==
  formatDate(newDate(digitsVal(SubSeq(s, 7, 10)), digitsVal(SubSeq(s, 1, 2)) - 1,
                     digitsVal(SubSeq(s, 4, 5))))

FourDigitYearShape(s) == matchesShape(s, ShapeSlash4) \/ matchesShape(s, ShapeDash4)

\* C24: the first fixed pattern whose regex matches decides the field order:
\* every dd/dd/dddd and every dd-dd-dddd string is parsed month-first, and the
\* DD/MM/YYYY and DD-MM-YYYY parse branches are taken for no input.
C24_AlwaysMonthFirst ==
  /\ BranchTaken(itemDate.s) \notin {"DD/MM/YYYY", "DD-MM-YYYY"}
  /\ BranchTaken(poDateRequired.s) \notin {"DD/MM/YYYY", "DD-MM-YYYY"}
  /\ (InvoiceDateDone /\ FourDigitYearShape(itemDate.s))
       => invoiceDateStd = MonthFirstReading(itemDate.s)
  /\ (PODateDone /\ FourDigitYearShape(poDateRequired.s))
       => poDateStd = MonthFirstReading(poDateRequired.s)

\* 25-12-2025 read as month 25, day 12: the twelfth of January 2027
C24_Witness ==
  /\ datePc = "done"
  /\ itemDate = Str(<<"2","5","-","1","2","-","2","0","2","5">>)
  /\ invoiceDateStd = <<"0","1","/","1","2","/","2","0","2","7">>
  /\ poDateRequired = Str(D_us)
  /\ poDateStd = D_us

\* ------------------------------------------------------------------------
\* The reconcile API handler (POST) from the request to the response.  The
\* extracted invoice and the purchase-order data are what the extraction and
\* the fetch deliver if they succeed.
\* ------------------------------------------------------------------------
\* a record list that passes validatePORecords and makes the engine raise:
\* the item code is a number
ThrowingPOData ==
  [isArray |-> TRUE,
   list |-> <<[kind |-> "object",
               value |-> PORecord(Str(S_P1), Num(10), Num(5), Str(D_iso), Num(5),
                                  Str(S_ab))]>>]

InitHandler ==
  /\ \/ extracted \in AnyInvoices /\ poData = GoodPOData
     \/ extracted = GoodInvoice /\ poData \in AnyPOData \cup {ThrowingPOData}
  /\ apiKey \in BOOLEAN
  /\ file \in BOOLEAN
  /\ response = NoResponse
  /\ routePc = "key"
  /\ ReconcileIdle
  /\ DatesIdle
  /\ DashIdle

\* lines 18-23
CheckApiKey ==
  /\ routePc = "key"
  /\ routePc' = IF apiKey THEN "file" ELSE "answered"
  /\ response' = IF apiKey THEN response ELSE Failure(500)
  /\ UNCHANGED <<extracted, poData, apiKey, file>>
  /\ UNCHANGED <<reconcileVars, dateVars, dashVars>>

\* lines 25-33
CheckFile ==
  /\ routePc = "file"
  /\ routePc' = IF file THEN "extract" ELSE "answered"
  /\ response' = IF file THEN response ELSE Failure(400)
  /\ UNCHANGED <<extracted, poData, apiKey, file>>
  /\ UNCHANGED <<reconcileVars, dateVars, dashVars>>

\* lines 35-100: the text extraction and the extraction call may reject
\* (caught on lines 151-157), the text may be empty (lines 39-44), the answer
\* may hold no JSON (lines 94-99); otherwise invoiceData is the parsed value
ExtractInvoice ==
  /\ routePc = "extract"
  /\ \E outcome \in {"parsed", "noText", "parseError", "rejected"} :
       /\ routePc' = IF outcome = "parsed" THEN "invoice" ELSE "answered"
       /\ response' = CASE outcome = "parsed" -> response
                        [] outcome = "noText" -> Failure(400)
                        [] OTHER -> Failure(500)
  /\ UNCHANGED <<extracted, poData, apiKey, file>>
  /\ UNCHANGED <<reconcileVars, dateVars, dashVars>>

\* lines 112-124 failing: the fetch rejects, the status is not ok (line 121)
\* or the body is no JSON; caught on lines 151-157
FetchFails ==
  /\ routePc = "fetch"
  /\ routePc' = "answered"
  /\ response' = Failure(500)
  /\ UNCHANGED <<extracted, poData, apiKey, file>>
  /\ UNCHANGED <<reconcileVars, dateVars, dashVars>>

\* line 136: reconcileInvoiceData(invoiceData, purchaseOrders,
\* { requireDateMatch: true }) is entered
CallReconcile ==
  /\ routePc = "reconcile"
  /\ routePc' = "reconciling"
  /\ invoiceData' =
       [poNumber |-> extracted.poNumber, invoiceDate |-> JSUndefined,
        lineItems |-> [i \in 1..Len(extracted.lineItems.list) |->
                         extracted.lineItems.list[i].value]]
  /\ poRecords' = [isArray |-> TRUE,
                   list |-> [i \in 1..Len(poData.list) |-> poData.list[i].value]]
  /\ options' = [NoOptions EXCEPT !.requireDateMatch = JSBool(TRUE)]
  /\ pc' = "start"
  /\ UNCHANGED <<idx, poCandidates, reconciliationResults, summary>>
  /\ UNCHANGED <<extracted, poData, apiKey, file, response>>
  /\ UNCHANGED <<dateVars, dashVars>>

\* lines 139-149
RespondSuccess ==
  /\ routePc = "reconciling"
  /\ pc = "summarized"
  /\ routePc' = "answered"
  /\ response' = [success |-> TRUE, status |-> 200]
  /\ UNCHANGED <<extracted, poData, apiKey, file>>
  /\ UNCHANGED <<reconcileVars, dateVars, dashVars>>

\* lines 151-157, for an exception raised by reconcileInvoiceData
CatchThrown ==
  /\ routePc = "reconciling"
  /\ pc = "thrown"
  /\ routePc' = "answered"
  /\ response' = Failure(500)
  /\ UNCHANGED <<extracted, poData, apiKey, file>>
  /\ UNCHANGED <<reconcileVars, dateVars, dashVars>>

NextHandler ==
  \/ CheckApiKey \/ CheckFile \/ ExtractInvoice \/ ValidateInvoice \/ FetchFails
  \/ ValidatePOData \/ CallReconcile \/ Enter \/ ProcessItem \/ Return \/ Summarize
  \/ RespondSuccess \/ CatchThrown

SpecHandler == InitHandler /\ [][NextHandler]_vars

\* ------------------------------------------------------------------------
\* C25 (under SpecHandler)
\* ------------------------------------------------------------------------
\* reconcileInvoiceData has been invoked
ReconcileInvoked == pc # "idle"

\* the handler has returned a response
Answered == response # NoResponse

\* one of the handler's checks fails on this request
InputRejected ==
  \/ ~apiKey \/ ~file
  \/ ~validateInvoiceDataAny(extracted)
  \/ ~validatePORecordsAny(poData)

\* C25: reconcileInvoiceData is invoked only after validateInvoiceData
\* returned true for the extracted invoice and validatePORecords returned true
\* for the fetched PO data; when either validator returns false, or the API
\* key or the file is missing, reconcileInvoiceData is never called and the
\* handler's response has success false; the handler stops only with a
\* response.
C25_ReconcileOnlyAfterValidation ==
  /\ ReconcileInvoked =>
       /\ apiKey /\ file
       /\ validateInvoiceDataAny(extracted)
       /\ validatePORecordsAny(poData)
       /\ routePc \in {"reconciling", "answered"}
  /\ InputRejected => (~ReconcileInvoked /\ ~response.success)
  /\ response.success => (pc = "summarized" /\ response.status = 200)
  /\ Answered <=> routePc \in {"answered", "status400", "status500"}

\* the invoice passed validation, the fetched data is an array that failed
\* it, the handler answered 500 and the engine was never entered
C25_Witness ==
  /\ routePc = "status500"
  /\ response = Failure(500)
  /\ apiKey /\ file
  /\ validateInvoiceDataAny(extracted)
  /\ poData.isArray
  /\ ~validatePORecordsAny(poData)
  /\ ~ReconcileInvoked

\* ------------------------------------------------------------------------
\* C26 (under Spec)
\* ------------------------------------------------------------------------
\* C26: when the PO record list is non-empty the returned list has exactly
\* one INVOICE row per line item, so between n and 2n rows for n line items,
\* and the summary's totalItems is n; when no record has the invoice's PO
\* number every line item has a NO MATCH row and no other; totalItems is 0
\* for a non-empty invoice only when the PO list is empty.
C26_OneInvoiceRowPerLineItem ==
  LET n == Len(invoiceData.lineItems)
  IN  /\ (Returned /\ ~EmptyPOList) =>
            /\ Len(InvoiceRowsOf(reconciliationResults)) = n
            /\ Len(reconciliationResults) >= n
            /\ Len(reconciliationResults) <= 2 * n
            /\ matchingPOs = <<>> =>
                 /\ Len(reconciliationResults) = n
                 /\ \A k \in 1..n : reconciliationResults[k].Status = "NO MATCH"
      /\ pc = "summarized" =>
            /\ ~EmptyPOList => summary.totalItems = n
            /\ EmptyPOList => summary.totalItems = 0
            /\ (n > 0 /\ summary.totalItems = 0) => EmptyPOList

\* two line items, records that all carry another PO number: two NO MATCH
\* rows and totalItems 2
C26_Witness ==
  /\ pc = "summarized"
  /\ Len(poRecords.list) = 2
  /\ matchingPOs = <<>>
  /\ Len(invoiceData.lineItems) = 2
  /\ Len(reconciliationResults) = 2
  /\ reconciliationResults[1].Status = "NO MATCH"
  /\ reconciliationResults[2].Status = "NO MATCH"
  /\ summary.totalItems = 2
  /\ summary.noMatches = 2

\* ------------------------------------------------------------------------
\* C27 (under Spec)
\* ------------------------------------------------------------------------
\* the rows of a call on the line items given, with the PO number, invoice
\* date, PO list and options of the state (lines 46-204 as a function)
RECURSIVE reconcileLineItems(_)
reconcileLineItems(items) ==
  IF items = <<>> THEN <<>>
  ELSE itemRows(invoiceData, poCandidatesOf(matchingPOs, ItemNameOf(Head(items)), opts),
                Head(items), opts)
       \o reconcileLineItems(Tail(items))

\* C27: line items are reconciled independently and PO records are not
\* consumed by a match: no step changes the PO list, each step appends the
\* rows of its line item reconciled alone, and the returned list is, for
\* every way of cutting the line items in two lists, the concatenation of the
\* results of the two lists.
C27_LineItemsIndependent ==
  [][/\ poRecords' = poRecords
     /\ invoiceData' = invoiceData
     /\ options' = options
     /\ ItemStep =>
          reconciliationResults' = reconciliationResults
                                     \o reconcileLineItems(<<invoiceData.lineItems[idx]>>)
     /\ (pc = "loop" /\ pc' = "returned") =>
          \A k \in 0..Len(invoiceData.lineItems) :
            reconciliationResults' =
              reconcileLineItems(SubSeq(invoiceData.lineItems, 1, k))
                \o reconcileLineItems(SubSeq(invoiceData.lineItems, k + 1,
                                             Len(invoiceData.lineItems)))]_vars

\* two line items paired with the same record, the only one of the list
C27_Witness ==
  /\ pc = "returned"
  /\ Len(poRecords.list) = 1
  /\ Len(invoiceData.lineItems) = 2
  /\ Len(reconciliationResults) = 4
  /\ reconciliationResults[2].Source = SourcePO
  /\ reconciliationResults[4].Source = SourcePO
  /\ reconciliationResults[2].ItemDescription = poDescriptionOf(poRecords.list[1])
  /\ reconciliationResults[4].ItemDescription = reconciliationResults[2].ItemDescription
  /\ reconciliationResults[1].ItemDescription # reconciliationResults[3].ItemDescription

\* ------------------------------------------------------------------------
\* C28 (under SpecTieBreak)
\* ------------------------------------------------------------------------
BothFlagsTrue(r) == r._qty_match = JSBool(TRUE) /\ r._price_match = JSBool(TRUE)

\* C28: when the candidate pool of a line item holds a record with quantity
\* and price both within tolerance, both rows of the pair pushed have
\* _qty_match and _price_match true; a pair with one of the two flags false
\* is pushed only when no record of the pool is within both tolerances.
C28_FlagsFalseOnlyWithoutExactCandidate ==
  [][(ItemStep /\ poCandidates' # <<>>) =>
       /\ Len(NewRows) = 2
       /\ WithinBothAt(poCandidates', invoiceData.lineItems[idx]) # {}
            => (BothFlagsTrue(NewRows[1]) /\ BothFlagsTrue(NewRows[2]))
       /\ (~BothFlagsTrue(NewRows[1]) \/ ~BothFlagsTrue(NewRows[2]))
            => \A c \in 1..Len(poCandidates') :
                 ~WithinBoth(poCandidates'[c], invoiceData.lineItems[idx])]_vars

\* the first candidate of the last line item has only the quantity within
\* tolerance, the second has both, and the pair has both flags true
C28_Witness ==
  /\ pc = "returned"
  /\ Len(invoiceData.lineItems) >= 1
  /\ Len(poCandidates) = 2
  /\ LET item == invoiceData.lineItems[Len(invoiceData.lineItems)]
     IN  /\ QtyWithinAt(poCandidates, item) = {1, 2}
         /\ PriceWithinAt(poCandidates, item) = {2}
  /\ reconciliationResults # <<>>
  /\ RowOfRecord(reconciliationResults[Len(reconciliationResults)], poCandidates[2])
  /\ BothFlagsTrue(reconciliationResults[Len(reconciliationResults)])

\* ------------------------------------------------------------------------
\* Re-normalizing: the date comparison of a date with its own normalized
\* form, as when a record's DateRequired was standardized before
\* ------------------------------------------------------------------------
D_month0_100 == <<"0","0","/","0","0","/","0","1","0","0">>

D_day0_100 == <<"0","1","/","0","0","/","0","1","0","0">>

D_past9999 == <<"1","2","/","3","2","/","9","9","9","9">>

RenormalizedDates ==
  OddDates \cup {Str(s) : s \in ShortDates}
  \cup {Str(D_iso), Str(D_month0_100), Str(D_day0_100), Str(D_past9999)}

InitRenormalize ==
  /\ itemDate \in RenormalizedDates
  /\ \E i \in BuiltInOutcomes(itemDate) :
       /\ poDateRequired = Str(standardizeDateWith(itemDate, i))
       /\ \E p \in BuiltInOutcomes(poDateRequired) : parsedDate = [invoice |-> i, po |-> p]
  /\ invoiceDateStd = <<>>
  /\ poDateStd = <<>>
  /\ dateMatch = FALSE
  /\ datePc = "invoice"
  /\ ReconcileIdle
  /\ RouteIdle
  /\ DashIdle

SpecRenormalize == InitRenormalize /\ [][NextDates]_vars

\* ------------------------------------------------------------------------
\* C29 (under SpecRenormalize)
\* ------------------------------------------------------------------------
\* C29: standardizeDate is idempotent: standardizing an already standardized
\* date returns it unchanged, so a date and its standardized form compare
\* equal.
C29_StandardizeIdempotent ==
  /\ PODateDone => poDateStd = poDateRequired.s
  /\ datePc = "done" => dateMatch

\* ------------------------------------------------------------------------
\* The dashboard: processFile and its progress timer
\* (pdf-processor-dashboard.tsx lines 63-127)
\* ------------------------------------------------------------------------
\* runs of processFile a behaviour may start
MaxRuns == 3

\* handleFileSelect / handleDrop with a PDF: setUploadedFile
SelectFile ==
  /\ ~uploadedFile
  /\ uploadedFile' = TRUE
  /\ UNCHANGED <<isProcessing, progress, progressIntervals, run, runPc, fetched>>
  /\ UNCHANGED <<reconcileVars, dateVars, routeVars>>

\* lines 63-88, up to the await of fetch; the button that calls processFile
\* is disabled while there is no file or isProcessing (line 303)
StartProcess ==
  /\ uploadedFile
  /\ ~isProcessing
  /\ runPc \in {"idle", "succeeded", "failed"}
  /\ run < MaxRuns
  /\ run' = run + 1
  /\ isProcessing' = TRUE
  /\ progress' = 0
  /\ progressIntervals' = progressIntervals \cup {run + 1}
  /\ runPc' = "fetching"
  /\ fetched' = NotFetched
  /\ UNCHANGED uploadedFile
  /\ UNCHANGED <<reconcileVars, dateVars, routeVars>>

\* lines 75-83: one callback of a live interval
ProgressTick ==
  /\ \E i \in progressIntervals :
       IF progress >= 90
         THEN /\ progressIntervals' = progressIntervals \ {i}
              /\ progress' = 90
         ELSE /\ progress' = progress + 15
              /\ UNCHANGED progressIntervals
  /\ UNCHANGED <<uploadedFile, isProcessing, run, runPc, fetched>>
  /\ UNCHANGED <<reconcileVars, dateVars, routeVars>>

\* lines 86-92: fetch resolves; the run's interval is cleared
FetchResolves ==
  /\ runPc = "fetching"
  /\ \E ok \in BOOLEAN, success \in BOOLEAN :
       fetched' = [ok |-> ok, success |-> success]
  /\ progressIntervals' = progressIntervals \ {run}
  /\ progress' = 95
  /\ runPc' = "responded"
  /\ UNCHANGED <<uploadedFile, isProcessing, run>>
  /\ UNCHANGED <<reconcileVars, dateVars, routeVars>>

\* lines 86-89 and 116-119: fetch rejects; control passes to the catch block
FetchRejects ==
  /\ runPc = "fetching"
  /\ isProcessing' = FALSE
  /\ progress' = 0
  /\ runPc' = "failed"
  /\ UNCHANGED <<uploadedFile, progressIntervals, run, fetched>>
  /\ UNCHANGED <<reconcileVars, dateVars, routeVars>>

\* lines 94-109 and 116-119: the body is read; an error response or
\* success = false throws into the catch block
ReadBody ==
  /\ runPc = "responded"
  /\ IF fetched.ok /\ fetched.success
       THEN /\ progress' = 100
            /\ isProcessing' = FALSE
            /\ runPc' = "succeeded"
       ELSE /\ isProcessing' = FALSE
            /\ progress' = 0
            /\ runPc' = "failed"
  /\ UNCHANGED <<uploadedFile, progressIntervals, run, fetched>>
  /\ UNCHANGED <<reconcileVars, dateVars, routeVars>>

InitDashboard ==
  /\ DashIdle
  /\ ReconcileIdle
  /\ DatesIdle
  /\ RouteIdle

NextDashboard ==
  \/ SelectFile
  \/ StartProcess
  \/ ProgressTick
  \/ FetchResolves
  \/ FetchRejects
  \/ ReadBody

SpecDashboard == InitDashboard /\ [][NextDashboard]_vars

\* ------------------------------------------------------------------------
\* C30 (under SpecDashboard)
\* ------------------------------------------------------------------------
RunEnded == runPc \in {"succeeded", "failed"}

\* C30: every run of processFile ends with isProcessing false; progress
\* stays within 0..100; once a run has succeeded progress is 100, and once
\* a run has failed progress is 0, until the next run starts.
C30_ProgressSettled ==
  /\ RunEnded => ~isProcessing
  /\ progress \in 0..100
  /\ runPc = "succeeded" => progress = 100
  /\ runPc = "failed" => progress = 0

============================================================================
